---- MODULE Spec2Model ----
(***************************************************************************)
(* Model of the change-data-capture pipeline of serverless-rust-demo:      *)
(* the DynamoDB stream record decoder (entrypoints/lambda/dynamodb), the   *)
(* parse_events entrypoint and the EventBridge bus (event_bus/eventbridge).*)
(***************************************************************************)
EXTENDS Integers, Sequences, FiniteSets, TLC

(***************************************************************************)
(* Option and Result values of the Rust code.                              *)
(***************************************************************************)
None == [some |-> FALSE]
Some(x) == [some |-> TRUE, v |-> x]
Ok(x) == [ok |-> TRUE, v |-> x]
Err(e) == [ok |-> FALSE, err |-> e]

\* Error::InternalError(msg) and Error::SdkError(msg) of error.rs
InternalError(msg) == [variant |-> "InternalError", msg |-> msg]
SdkError(msg) == [variant |-> "SdkError", msg |-> msg]

(***************************************************************************)
(* str::parse::<f64>() on the string form of a number.  A string is a      *)
(* sequence of one-character strings.  The value of a decimal literal is   *)
(* kept exactly as mantissa and number of fractional digits, normalised    *)
(* (no trailing fractional zero), so "1.0" and "1" parse to the same       *)
(* value and "1.0" and "1.5" to different ones.                            *)
(***************************************************************************)
Digits == <<"0", "1", "2", "3", "4", "5", "6", "7", "8", "9">>

IsDigit(c) == \E d \in 1..Len(Digits) : Digits[d] = c

DigitVal(c) == (CHOOSE d \in 1..Len(Digits) : Digits[d] = c) - 1

\* length of the longest prefix of s made of digits
RECURSIVE DigitRun(_)
DigitRun(s) ==
    IF s = <<>> \/ ~IsDigit(Head(s)) THEN 0 ELSE 1 + DigitRun(Tail(s))

\* value of a sequence of digits read as a natural number
RECURSIVE NatOf(_)
NatOf(s) ==
    IF s = <<>> THEN 0
    ELSE 10 * NatOf(SubSeq(s, 1, Len(s) - 1)) + DigitVal(s[Len(s)])

\* drop the trailing zeros of the fractional part
RECURSIVE Normalise(_, _)
Normalise(m, e) ==
    IF e > 0 /\ m % 10 = 0 THEN Normalise(m \div 10, e - 1) ELSE [m |-> m, e |-> e]

\* the f64 values that are not decimals
NaN == [nan |-> TRUE]
Inf(neg) == [inf |-> IF neg THEN 0 - 1 ELSE 1]

\* the literals of these values that every version of the parser accepts
NaNLit == <<"N", "a", "N">>
InfLit == <<"i", "n", "f">>

\* [sign] ( digits | digits '.' digits* | digits* '.' digits+ ), or one of
\* the literals NaN, inf, -inf; every other string over the characters of the
\* model (digits, sign, '.', ',' and letters: no exponent) is a
\* ParseFloatError
ParseF64(str) ==
    LET signed == str /= <<>> /\ Head(str) \in {"+", "-"}
        neg == signed /\ Head(str) = "-"
        body == IF signed THEN Tail(str) ELSE str
        ni == DigitRun(body)
        int == SubSeq(body, 1, ni)
        rest == SubSeq(body, ni + 1, Len(body))
        dotted == rest /= <<>> /\ Head(rest) = "."
        frac == IF dotted THEN Tail(rest) ELSE rest
        nf == DigitRun(frac)
        wellFormed == /\ nf = Len(frac)
                      /\ (dotted \/ frac = <<>>)
                      /\ ni + nf > 0
        mag == NatOf(int \o frac)
        val == Normalise(IF neg THEN 0 - mag ELSE mag, nf)
    IN  IF str = NaNLit THEN Ok(NaN)
        ELSE IF body = InfLit THEN Ok(Inf(neg))
        ELSE IF wellFormed THEN Ok(val)
        ELSE Err(InternalError("Unable to parse float"))

(***************************************************************************)
(* AttributeValue: a tagged value [tag, v].  A String is a sequence of     *)
(* one-character strings.                                                  *)
(***************************************************************************)
AttrS(s) == [tag |-> "S", v |-> s]
AttrN(n) == [tag |-> "N", v |-> n]

as_s(av) == IF av.tag = "S" THEN Some(av.v) ELSE None

\* n.parse::<f64>().ok()
as_n(av) ==
    IF av.tag = "N"
    THEN (IF ParseF64(av.v).ok THEN Some(ParseF64(av.v).v) ELSE None)
    ELSE None

\* HashMap::get
Get(item, key) == IF key \in DOMAIN item THEN Some(item[key]) ELSE None

\* Option::ok_or
ok_or(opt, e) == IF opt.some THEN Ok(opt.v) ELSE Err(e)

\* a string field of ProductExt::from_dynamodb:
\* item.get(key).ok_or(..)?.as_s().ok_or(..)?
FieldS(item, key) ==
    LET got == ok_or(Get(item, key), InternalError(<<key, "is missing">>))
    IN  IF ~got.ok THEN got
        ELSE ok_or(as_s(got.v), InternalError(<<key, "is missing">>))

\* the number field: item.get(key).ok_or(..)?.as_n().ok_or(..)?
FieldN(item, key) ==
    LET got == ok_or(Get(item, key), InternalError(<<key, "is missing">>))
    IN  IF ~got.ok THEN got
        ELSE ok_or(as_n(got.v), InternalError(<<key, "is missing">>))

\* a faulty variant of from_dynamodb: a price that is absent or is not a
\* number is replaced by zero
from_dynamodb_default_price(item) ==
    LET id == FieldS(item, "id")
        name == FieldS(item, "name")
        price == FieldN(item, "price")
    IN  IF ~id.ok THEN id
        ELSE IF ~name.ok THEN name
        ELSE Ok([id |-> id.v, name |-> name.v,
                 price |-> IF price.ok THEN price.v ELSE [m |-> 0, e |-> 0]])

\* ProductExt::from_dynamodb: the fields are evaluated in the order id, name,
\* price and the first failure is returned
from_dynamodb(item) ==
    LET id == FieldS(item, "id")
        name == FieldS(item, "name")
        price == FieldN(item, "price")
    IN  IF ~id.ok THEN id
        ELSE IF ~name.ok THEN name
        ELSE IF ~price.ok THEN price
        ELSE Ok([id |-> id.v, name |-> name.v, price |-> price.v])

(***************************************************************************)
(* Event and the record decoder.                                           *)
(***************************************************************************)
Created(p) == [type |-> "Created", product |-> p]
Updated(o, n) == [type |-> "Updated", old |-> o, new |-> n]
Deleted(p) == [type |-> "Deleted", product |-> p]

\* Event::id
EventId(e) == IF e.type = "Updated" THEN e.new.id ELSE e.product.id

\* a faulty variant of from_dynamodb_record: REMOVE decodes the new image
from_dynamodb_record_remove_new(record) ==
    IF record.event_name = "INSERT" THEN
        LET product == from_dynamodb(record.dynamodb.new_image)
        IN  IF ~product.ok THEN product ELSE Ok(Created(product.v))
    ELSE IF record.event_name = "MODIFY" THEN
        LET old == from_dynamodb(record.dynamodb.old_image)
            new == from_dynamodb(record.dynamodb.new_image)
        IN  IF ~old.ok THEN old
            ELSE IF ~new.ok THEN new
            ELSE Ok(Updated(old.v, new.v))
    ELSE IF record.event_name = "REMOVE" THEN
        LET product == from_dynamodb(record.dynamodb.new_image)
        IN  IF ~product.ok THEN product ELSE Ok(Deleted(product.v))
    ELSE Err(InternalError("Unknown event type"))

\* a faulty variant of from_dynamodb_record: a kind that is not known is decoded as
\* an INSERT
from_dynamodb_record_default_insert(record) ==
    IF record.event_name = "MODIFY" THEN
        LET old == from_dynamodb(record.dynamodb.old_image)
            new == from_dynamodb(record.dynamodb.new_image)
        IN  IF ~old.ok THEN old
            ELSE IF ~new.ok THEN new
            ELSE Ok(Updated(old.v, new.v))
    ELSE IF record.event_name = "REMOVE" THEN
        LET product == from_dynamodb(record.dynamodb.old_image)
        IN  IF ~product.ok THEN product ELSE Ok(Deleted(product.v))
    ELSE
        LET product == from_dynamodb(record.dynamodb.new_image)
        IN  IF ~product.ok THEN product ELSE Ok(Created(product.v))

\* a faulty variant of from_dynamodb_record: a MODIFY whose old image does not decode
\* takes the new product for the old one
from_dynamodb_record_lenient_old(record) ==
    IF record.event_name = "INSERT" THEN
        LET product == from_dynamodb(record.dynamodb.new_image)
        IN  IF ~product.ok THEN product ELSE Ok(Created(product.v))
    ELSE IF record.event_name = "MODIFY" THEN
        LET old == from_dynamodb(record.dynamodb.old_image)
            new == from_dynamodb(record.dynamodb.new_image)
        IN  IF ~new.ok THEN new
            ELSE IF ~old.ok THEN Ok(Updated(new.v, new.v))
            ELSE Ok(Updated(old.v, new.v))
    ELSE IF record.event_name = "REMOVE" THEN
        LET product == from_dynamodb(record.dynamodb.old_image)
        IN  IF ~product.ok THEN product ELSE Ok(Deleted(product.v))
    ELSE Err(InternalError("Unknown event type"))

\* EventExt::from_dynamodb_record
from_dynamodb_record(record) ==
    IF record.event_name = "INSERT" THEN
        LET product == from_dynamodb(record.dynamodb.new_image)
        IN  IF ~product.ok THEN product ELSE Ok(Created(product.v))
    ELSE IF record.event_name = "MODIFY" THEN
        LET old == from_dynamodb(record.dynamodb.old_image)
            new == from_dynamodb(record.dynamodb.new_image)
        IN  IF ~old.ok THEN old
            ELSE IF ~new.ok THEN new
            ELSE Ok(Updated(old.v, new.v))
    ELSE IF record.event_name = "REMOVE" THEN
        LET product == from_dynamodb(record.dynamodb.old_image)
        IN  IF ~product.ok THEN product ELSE Ok(Deleted(product.v))
    ELSE Err(InternalError("Unknown event type"))

(***************************************************************************)
(* The wire form of a stream record and its deserialisation.  NewImage and *)
(* OldImage are #[serde(default)]: an image absent from the wire record    *)
(* becomes the empty map.                                                  *)
(***************************************************************************)
EmptyMap == [k \in {} |-> None]

unwrap_or_default(opt) == IF opt.some THEN opt.v ELSE EmptyMap

\* serde::Deserialize for DynamoDBRecord / DynamoDBStreamRecord
Deserialize(w) ==
    [event_name |-> w.eventName,
     dynamodb |-> [new_image |-> unwrap_or_default(w.NewImage),
                   old_image |-> unwrap_or_default(w.OldImage)]]

(***************************************************************************)
(* The EventBridge entry of an event.                                      *)
(***************************************************************************)
SOURCE == "rust-products"

\* the bus name EventBridgeBus::new was given
BusName == "test-bus"

\* the JSON object of a Product: its members in the order serde writes them
ProductJson(p) == <<(<<"id", p.id>>), <<"name", p.name>>, <<"price", p.price>>>>

\* serde_json::to_string(event): #[serde(tag = "type")] writes the variant's
\* name as the member "type", before the variant's fields
to_string(e) ==
    IF e.type = "Updated"
    THEN <<(<<"type", "Updated">>), <<"old", ProductJson(e.old)>>,
           <<"new", ProductJson(e.new)>>>>
    ELSE <<(<<"type", e.type>>), <<"product", ProductJson(e.product)>>>>

\* a faulty variant of to_eventbridge: the resource of an Updated event is
\* the id of old
to_eventbridge_old_id(e, bus_name) ==
    [EventBusName |-> bus_name,
     Source |-> SOURCE,
     DetailType |-> IF e.type = "Created" THEN "ProductCreated"
                    ELSE IF e.type = "Updated" THEN "ProductUpdated"
                    ELSE "ProductDeleted",
     Resources |-> <<(IF e.type = "Updated" THEN e.old.id ELSE e.product.id)>>,
     Detail |-> to_string(e)]

\* EventExt::to_eventbridge
to_eventbridge(e, bus_name) ==
    [EventBusName |-> bus_name,
     Source |-> SOURCE,
     DetailType |-> IF e.type = "Created" THEN "ProductCreated"
                    ELSE IF e.type = "Updated" THEN "ProductUpdated"
                    ELSE "ProductDeleted",
     Resources |-> <<EventId(e)>>,
     Detail |-> to_string(e)]

\* EventBridge takes at most 10 entries per put_events() request
BatchSize == 10

Min(a, b) == IF a < b THEN a ELSE b

\* a faulty variant of chunks: chunks_exact: the shorter last slice is left out
RECURSIVE chunks_exact(_, _)
chunks_exact(s, n) ==
    IF Len(s) < n THEN <<>>
    ELSE <<SubSeq(s, 1, n)>> \o chunks_exact(SubSeq(s, n + 1, Len(s)), n)

\* slice::chunks(n): consecutive slices of n elements, the last one shorter
\* when the length is no multiple of n; none for the empty slice
RECURSIVE chunks(_, _)
chunks(s, n) ==
    IF s = <<>> THEN <<>>
    ELSE <<SubSeq(s, 1, Min(n, Len(s)))>> \o chunks(SubSeq(s, n + 1, Len(s)), n)

\* the entries of one put_events() request
Entries(chunk, bus_name) ==
    [j \in 1..Len(chunk) |-> to_eventbridge(chunk[j], bus_name)]

(***************************************************************************)
(* Bounds of the model and the payloads the stream source delivers.        *)
(***************************************************************************)
\* longest payload (number of stream records of one invocation)
MaxRecords == 25

\* number of rayon workers decoding one payload
NumWorkers == 2

\* number of records of a payload that may be malformed
MaxBad == 1

\* longest payload that holds malformed records
MaxBadLen == 12

Kinds == <<"INSERT", "MODIFY", "REMOVE">>

Image(id, name, price) ==
    [id |-> AttrS(id), name |-> AttrS(name), price |-> AttrN(price)]

\* a well-formed record for position i of a payload: its kind, its id and
\* its prices depend on i
GoodWire(i) ==
    LET d == Digits[(i % 10) + 1]
        kind == Kinds[(i % 3) + 1]
        id == <<Digits[(i \div 10) + 1], d>>
        old == Image(id, <<"o">>, <<d, ".", "5">>)
        new == Image(id, <<"n">>, <<"1", d, ".", "0">>)
    IN  [eventName |-> kind,
         NewImage |-> IF kind = "REMOVE" THEN None ELSE Some(new),
         OldImage |-> IF kind = "INSERT" THEN None ELSE Some(old)]

\* records that do not decode: a malformed price, an unknown event kind, a
\* MODIFY without its old image
BadWires ==
    {[eventName |-> "INSERT",
      NewImage |-> Some(Image(<<"x">>, <<"n">>, <<"1", "0", ",", "5">>)),
      OldImage |-> None],
     [eventName |-> "REPLICATE",
      NewImage |-> Some(Image(<<"x">>, <<"n">>, <<"1", ".", "0">>)),
      OldImage |-> Some(Image(<<"x">>, <<"o">>, <<"2", ".", "0">>))],
     [eventName |-> "MODIFY",
      NewImage |-> Some(Image(<<"x">>, <<"n">>, <<"1", ".", "0">>)),
      OldImage |-> None]}

\* the ways to make at most MaxBad records of a payload of n records
\* malformed: functions from the malformed positions to their records
\* (none for a payload longer than MaxBadLen)
RECURSIVE SubsetsUpTo(_, _)
SubsetsUpTo(S, k) ==
    IF k = 0 THEN {{}}
    ELSE SubsetsUpTo(S, k - 1)
            \cup {q \cup {x} : q \in SubsetsUpTo(S, k - 1), x \in S}

BadChoices(n) ==
    UNION {[pos -> BadWires] :
            pos \in SubsetsUpTo(1..n, IF n <= MaxBadLen THEN MaxBad ELSE 0)}

\* the payload of n records whose records at the positions of bad are
\* malformed
Payload(n, bad) ==
    [i \in 1..n |-> IF i \in DOMAIN bad THEN bad[i] ELSE GoodWire(i)]

WirePayloads ==
    UNION {{Payload(n, bad) : bad \in BadChoices(n)} : n \in 0..MaxRecords}

\* what a put_events() request can come back with: success, or one of two
\* service errors
BusErrors == {"ThrottlingException", "InternalException"}

BusOutcomes == {"ok"} \cup BusErrors

(***************************************************************************)
(* State.                                                                  *)
(***************************************************************************)
VARIABLES
    wire,       \* the payload as delivered by the stream source
    records,    \* DynamoDBEvent.records, the deserialised payload
    pc,         \* position of the invocation: decode, dispatch, done
    wpos,       \* per rayon worker, the next record it decodes
    decoded,    \* per record, the decoder's result once it ran
    saved_err,  \* the error the parallel collect has saved
    calls,      \* the event lists send_events was called with
    requests,   \* the put_events() requests the bus received, in order
    res,        \* per batch, the outcome of its request once it completed
    accepted,   \* the entries the bus accepted, in order
    send_res,   \* what send_events returned
    result,     \* what parse_events returned
    codec_in,   \* the value, item or product a conversion is applied to
    codec_op,   \* the conversions applied so far, in order
    codec_out,  \* what the last conversion returned
    failures,   \* the requests the bus has failed or partly rejected so far
    http_entry, \* the HTTP entrypoint that is deployed
    store,      \* the table: the product stored under each id
    http_last,  \* the last HTTP request and its response
    completed,  \* the batches whose request completed, in completion order
    second,     \* the invocation that runs beside the first on the same bus
    data,       \* MemoryStore.data: the entries of the HashMap
    tasks,      \* per task using the MemoryStore, its call and what it got
    oplog       \* the calls of the store in the order they took the lock

\* the state of a conversion applied on its own, outside an invocation
codec_vars == <<codec_in, codec_op, codec_out>>

\* the state of the HTTP layer
http_vars == <<http_entry, store, http_last>>

\* the state that an invocation of parse_events does not touch
\* the state of the observers of one invocation
\* the state of the MemoryStore and of the tasks that use it
memory_vars == <<data, tasks, oplog>>

extra_vars == <<completed, second, memory_vars>>

side_vars == <<codec_vars, failures, http_vars, extra_vars>>

vars == <<wire, records, pc, wpos, decoded, saved_err, calls, requests, res,
          accepted, send_res, result, side_vars>>

\* the records worker w decodes: rayon splits the slice into contiguous parts
First(w, n) == ((w - 1) * n) \div NumWorkers + 1
Last(w, n) == (w * n) \div NumWorkers

InitWith(payload) ==
    /\ wire = payload
    /\ records = [i \in 1..Len(payload) |-> Deserialize(payload[i])]
    /\ pc = "decode"
    /\ wpos = [w \in 1..NumWorkers |-> First(w, Len(payload))]
    /\ decoded = [i \in 1..Len(payload) |-> None]
    /\ saved_err = None
    /\ calls = <<>>
    /\ requests = <<>>
    /\ res = <<>>
    /\ accepted = <<>>
    /\ send_res = None
    /\ result = None

\* no conversion is applied outside the invocation
CodecIdle ==
    /\ codec_in = [kind |-> "none"]
    /\ codec_op = <<>>
    /\ codec_out = None

\* no HTTP request is served
HttpIdle ==
    /\ http_entry = "none"
    /\ store = EmptyMap
    /\ http_last = [method |-> "none"]

\* no completion is noted and no second invocation runs
MemoryIdle == data = {} /\ tasks = <<>> /\ oplog = <<>>

ExtraIdle == completed = <<>> /\ second = [pc |-> "none"] /\ MemoryIdle

SideIdle == CodecIdle /\ failures = 0 /\ HttpIdle /\ ExtraIdle

Init == (\E payload \in WirePayloads : InitWith(payload)) /\ SideIdle

\* a faulty variant of DecodeStep: the worker decodes the first record of its
\* part again in place of its next one
DecodeStepStale(w) ==
    /\ pc = "decode"
    /\ ~saved_err.some
    /\ wpos[w] <= Last(w, Len(records))
    /\ LET i == wpos[w]
           r == from_dynamodb_record(records[First(w, Len(records))])
       IN  /\ decoded' = [decoded EXCEPT ![i] = Some(r)]
           /\ saved_err' = IF r.ok THEN saved_err ELSE Some(r.err)
    /\ wpos' = [wpos EXCEPT ![w] = @ + 1]
    /\ UNCHANGED <<wire, records, pc, calls, requests, res, accepted,
                   send_res, result>>

(***************************************************************************)
(* parse_events: the parallel decode.                                      *)
(***************************************************************************)
\* One worker of records.par_iter().map(from_dynamodb_record) decodes its next
\* record.  Collecting into a Result saves the first error any worker meets
\* and stops the iteration.
DecodeStep(w) ==
    /\ pc = "decode"
    /\ ~saved_err.some
    /\ wpos[w] <= Last(w, Len(records))
    /\ LET i == wpos[w]
           r == from_dynamodb_record(records[i])
       IN  /\ decoded' = [decoded EXCEPT ![i] = Some(r)]
           /\ saved_err' = IF r.ok THEN saved_err ELSE Some(r.err)
    /\ wpos' = [wpos EXCEPT ![w] = @ + 1]
    /\ UNCHANGED <<wire, records, pc, calls, requests, res, accepted,
                   send_res, result>>

\* the decode is over: an error was saved, or every worker is through
DecodeOver ==
    \/ saved_err.some
    \/ \A w \in 1..NumWorkers : wpos[w] > Last(w, Len(records))

\* the events of the records that decoded, in the order of the records
RECURSIVE DecodedEvents(_)
DecodedEvents(n) ==
    IF n = 0 THEN <<>>
    ELSE DecodedEvents(n - 1)
            \o (IF decoded[n].some /\ decoded[n].v.ok THEN <<decoded[n].v.v>>
                ELSE <<>>)

\* a faulty variant of Collect: filter_map: the records that fail to decode are
\* skipped and the others are published
CollectSkipFailed ==
    /\ pc = "decode"
    /\ DecodeOver
    /\ LET events == DecodedEvents(Len(records))
       IN  /\ calls' = Append(calls, events)
           /\ res' = [k \in 1..Len(chunks(events, BatchSize)) |-> None]
           /\ pc' = "dispatch"
    /\ UNCHANGED <<wire, records, wpos, decoded, saved_err, requests,
                   accepted, send_res, result>>

\* a faulty variant of Collect: the events are collected last record first
CollectReversed ==
    /\ pc = "decode"
    /\ DecodeOver
    /\ IF saved_err.some
       THEN /\ result' = Some(Err(saved_err.v))
            /\ pc' = "done"
            /\ UNCHANGED <<calls, res>>
       ELSE LET n == Len(records)
                events == [i \in 1..n |-> decoded[n + 1 - i].v.v]
            IN  /\ calls' = Append(calls, events)
                /\ res' = [k \in 1..Len(chunks(events, BatchSize)) |-> None]
                /\ pc' = "dispatch"
                /\ UNCHANGED result
    /\ UNCHANGED <<wire, records, wpos, decoded, saved_err, requests,
                   accepted, send_res>>

\* .collect::<Result<Vec<_>, _>>()? and the call of service.send_events: on a
\* saved error parse_events returns it; otherwise the events are collected in
\* the order of the records and send_events is entered with them, which
\* splits them into chunks of 10
Collect ==
    /\ pc = "decode"
    /\ DecodeOver
    /\ IF saved_err.some
       THEN /\ result' = Some(Err(saved_err.v))
            /\ pc' = "done"
            /\ UNCHANGED <<calls, res>>
       ELSE LET events == [i \in 1..Len(records) |-> decoded[i].v.v]
            IN  /\ calls' = Append(calls, events)
                /\ res' = [k \in 1..Len(chunks(events, BatchSize)) |-> None]
                /\ pc' = "dispatch"
                /\ UNCHANGED result
    /\ UNCHANGED <<wire, records, wpos, decoded, saved_err, requests,
                   accepted, send_res>>

(***************************************************************************)
(* EventBridgeBus::send_events.                                            *)
(***************************************************************************)
\* the chunks of the running send_events call
Batches == chunks(calls[Len(calls)], BatchSize)

Submitted(k) == \E q \in 1..Len(requests) : requests[q].batch = k

\* a faulty variant of Submit: the batches are sent one after the other, each once
\* the one before it has completed
SubmitSequential(k) ==
    /\ pc = "dispatch"
    /\ k \in DOMAIN res
    /\ ~Submitted(k)
    /\ \A j \in 1..(k - 1) : res[j].some
    /\ requests' = Append(requests,
                          [batch |-> k, entries |-> Entries(Batches[k], BusName)])
    /\ UNCHANGED <<wire, records, pc, wpos, decoded, saved_err, calls, res,
                   accepted, send_res, result>>

\* the put_events() request of batch k is sent: join_all polls every future,
\* none waits for another
Submit(k) ==
    /\ pc = "dispatch"
    /\ k \in DOMAIN res
    /\ ~Submitted(k)
    /\ requests' = Append(requests,
                          [batch |-> k, entries |-> Entries(Batches[k], BusName)])
    /\ UNCHANGED <<wire, records, pc, wpos, decoded, saved_err, calls, res,
                   accepted, send_res, result>>

\* a faulty variant of Respond: a request that failed is sent once more
RespondRetry(k, o) ==
    /\ pc = "dispatch"
    /\ k \in DOMAIN res
    /\ Submitted(k)
    /\ ~res[k].some
    /\ LET again == /\ o /= "ok"
                    /\ Cardinality({q \in DOMAIN requests :
                                        requests[q].batch = k}) = 1
       IN  /\ requests' =
                 IF again
                 THEN Append(requests, [batch |-> k,
                                        entries |-> Entries(Batches[k], BusName)])
                 ELSE requests
           /\ res' = IF again THEN res
                     ELSE [res EXCEPT ![k] =
                              Some(IF o = "ok" THEN Ok("PutEventsOutput")
                                               ELSE Err(o))]
    /\ accepted' = IF o = "ok" THEN accepted \o Entries(Batches[k], BusName)
                               ELSE accepted
    /\ UNCHANGED <<wire, records, pc, wpos, decoded, saved_err, calls,
                   send_res, result>>

\* the request of batch k completes with outcome o: the bus accepted its
\* entries, or the request failed
Respond(k, o) ==
    /\ pc = "dispatch"
    /\ k \in DOMAIN res
    /\ Submitted(k)
    /\ ~res[k].some
    /\ res' = [res EXCEPT ![k] = Some(IF o = "ok" THEN Ok("PutEventsOutput")
                                                  ELSE Err(o))]
    /\ accepted' = IF o = "ok" THEN accepted \o Entries(Batches[k], BusName)
                               ELSE accepted
    /\ UNCHANGED <<wire, records, pc, wpos, decoded, saved_err, calls,
                   requests, send_res, result>>

\* a faulty variant of CollectResults: the responses are read in the order
\* the requests completed
CollectFirstCompleted(r) ==
    IF \E k \in DOMAIN r : ~r[k].v.ok
    THEN LET first == CHOOSE q \in DOMAIN completed :
                        /\ ~r[completed[q]].v.ok
                        /\ \A j \in 1..(q - 1) : r[completed[j]].v.ok
         IN  Err(SdkError(r[completed[first]].v.err))
    ELSE Ok("()")

\* a faulty variant of CollectResults: success as soon as one batch succeeded
CollectAnyOk(r) ==
    IF \A k \in DOMAIN r : ~r[k].v.ok
    THEN (IF DOMAIN r = {} THEN Ok("()") ELSE Err(SdkError(r[1].v.err)))
    ELSE Ok("()")

\* res.into_iter().collect::<Result<Vec<_>, _>>()?; Ok(()): the first Err of
\* the response vector, converted by From<SdkError<E>> for Error
CollectResults(r) ==
    IF \E k \in DOMAIN r : ~r[k].v.ok
    THEN LET first == CHOOSE k \in DOMAIN r :
                        /\ ~r[k].v.ok
                        /\ \A j \in DOMAIN r : ~r[j].v.ok => k <= j
         IN  Err(SdkError(r[first].v.err))
    ELSE Ok("()")

\* a faulty variant of Propagate: the result of send_events is dropped
PropagateSwallow(sent) == Ok("()")

\* service.send_events(&events).await?; Ok(())
Propagate(sent) == IF sent.ok THEN Ok("()") ELSE Err(sent.err)

\* a faulty variant of Join: the first failed batch is submitted a second time
JoinResubmit ==
    /\ pc = "dispatch"
    /\ \A k \in DOMAIN res : res[k].some
    /\ send_res' = Some(CollectResults(res))
    /\ result' = Some(Propagate(CollectResults(res)))
    /\ pc' = "done"
    /\ requests' =
          IF \E k \in DOMAIN res : ~res[k].v.ok
          THEN LET f == CHOOSE k \in DOMAIN res : ~res[k].v.ok
               IN  Append(requests,
                          [batch |-> f, entries |-> Entries(Batches[f], BusName)])
          ELSE requests
    /\ UNCHANGED <<wire, records, wpos, decoded, saved_err, calls, res,
                   accepted>>

\* join_all is through once every request has completed; send_events
\* returns and parse_events returns after it
Join ==
    /\ pc = "dispatch"
    /\ \A k \in DOMAIN res : res[k].some
    /\ send_res' = Some(CollectResults(res))
    /\ result' = Some(Propagate(CollectResults(res)))
    /\ pc' = "done"
    /\ UNCHANGED <<wire, records, wpos, decoded, saved_err, calls, requests,
                   res, accepted>>

Next ==
    \/ (\E w \in 1..NumWorkers : DecodeStep(w)) /\ UNCHANGED side_vars
    \/ Collect /\ UNCHANGED side_vars
    \/ (\E k \in DOMAIN res : Submit(k)) /\ UNCHANGED side_vars
    \/ (\E k \in DOMAIN res, o \in BusOutcomes : Respond(k, o))
           /\ UNCHANGED side_vars
    \/ Join /\ UNCHANGED side_vars

Spec == Init /\ [][Next]_vars

(***************************************************************************)
(* The record decoder on every record: payloads of one arbitrary record,   *)
(* alone or next to a well-formed one.                                     *)
(***************************************************************************)
\* what a field of an image can hold on the wire (None: the key is absent)
IdValues ==
    {None, Some(AttrS(<<"1">>)), Some(AttrS(<<"2">>)), Some(AttrN(<<"1">>))}

NameValues == {None, Some(AttrS(<<"a">>)), Some(AttrN(<<"7">>))}

PriceValues ==
    {None, Some(AttrN(<<"1", ".", "0">>)), Some(AttrN(<<"1", "0", ".", "5">>)),
     Some(AttrN(<<"a", "b", "c">>)), Some(AttrS(<<"1", ".", "0">>))}

\* the map holding the fields that are present
MapOf(f) == [k \in {key \in DOMAIN f : f[key].some} |-> f[k].v]

AllImages ==
    {MapOf([id |-> i, name |-> n, price |-> p]) :
        i \in IdValues, n \in NameValues, p \in PriceValues}

\* an image of the wire record: absent, or a map
WireImages == {None} \cup {Some(img) : img \in AllImages}

EventNames == {"INSERT", "MODIFY", "REMOVE", "REPLICATE"}

AllWires ==
    [eventName : EventNames, NewImage : WireImages, OldImage : WireImages]

\* record r alone, after a well-formed record, or before one
Placements(r) == <<(<<r>>), <<GoodWire(1), r>>, <<r, GoodWire(2)>>>>

InitRecord ==
    /\ \E r \in AllWires : \E place \in 1..3 : InitWith(Placements(r)[place])
    /\ SideIdle

SpecRecord == InitRecord /\ [][Next]_vars

(***************************************************************************)
(* Properties of send_events.                                              *)
(***************************************************************************)
\* the invocation is over and send_events was called
Returned == pc = "done" /\ Len(calls) = 1

NoBatchFailed == \A k \in DOMAIN res : res[k].some /\ res[k].v.ok

SomeBatchFailed == \E k \in DOMAIN res : res[k].some /\ ~res[k].v.ok

\* the entries of the requests sent for batch k, in the order they were sent
RequestsOf(k) ==
    LET sel == {q \in 1..Len(requests) : requests[q].batch = k}
        RECURSIVE pick(_)
        pick(q) == IF q > Len(requests) THEN <<>>
                   ELSE (IF q \in sel THEN <<requests[q].entries>> ELSE <<>>)
                            \o pick(q + 1)
    IN  pick(1)

\* the entries of batches 1..k, one after the other
RECURSIVE Concatenated(_)
Concatenated(k) ==
    IF k = 0 THEN <<>> ELSE Concatenated(k - 1) \o RequestsOf(k)[1]

\* C1: when no submission fails, send_events on N events has issued exactly
\* ceil(N/10) submissions; submission k carries the entries of events
\* 10(k-1)+1 .. min(10k, N) in input order, so every submission has 1 to 10
\* entries, only the last may have fewer than 10, and the submissions
\* concatenated in batch order are the entries of the input sequence; for
\* N = 0 there is no submission and the call returns success.
C1_Batching ==
    (Returned /\ NoBatchFailed) =>
        LET events == calls[1]
            N == Len(events)
            NB == (N + 9) \div 10
        IN  /\ Len(requests) = NB
            /\ \A k \in 1..NB :
                /\ Len(RequestsOf(k)) = 1
                /\ LET lo == 10 * (k - 1)
                       hi == IF 10 * k < N THEN 10 * k ELSE N
                       sub == RequestsOf(k)[1]
                   IN  /\ Len(sub) = hi - lo
                       /\ Len(sub) >= 1 /\ Len(sub) <= 10
                       /\ k < NB => Len(sub) = 10
                       /\ \A j \in 1..Len(sub) :
                            sub[j] = to_eventbridge(events[lo + j], BusName)
            /\ Concatenated(NB)
                 = [i \in 1..N |-> to_eventbridge(events[i], BusName)]
            /\ send_res = Some(Ok("()"))
            /\ N = 0 => requests = <<>> /\ result = Some(Ok("()"))

\* 25 events went out as three submissions of 10, 10 and 5 entries
C1_Witness ==
    /\ Returned /\ NoBatchFailed
    /\ Len(calls[1]) = 25
    /\ Len(requests) = 3
    /\ Len(RequestsOf(3)[1]) = 5

\* the batch event i of the input goes out in
BatchOf(i) == ((i - 1) \div 10) + 1

\* the positions of the input events whose batch the bus accepted
AcceptedEvents ==
    {i \in 1..Len(calls[1]) : res[BatchOf(i)].some /\ res[BatchOf(i)].v.ok}

IsPrefix(s, t) == Len(s) <= Len(t) /\ SubSeq(t, 1, Len(s)) = s

\* what holds of a call some batch of which failed
PartialFailure ==
    (Returned /\ SomeBatchFailed) =>
        LET events == calls[1]
        IN  /\ ~send_res.v.ok
            /\ Len(accepted) = Cardinality(AcceptedEvents)
            /\ \A i \in AcceptedEvents :
                \E a \in 1..Len(accepted) :
                    accepted[a] = to_eventbridge(events[i], BusName)
            /\ Len(requests) = (Len(events) + 9) \div 10
            /\ Len(events) = 15 =>
                /\ Len(requests) = 2
                /\ Len(RequestsOf(1)[1]) = 10
                /\ Len(RequestsOf(2)[1]) = 5
                /\ (res[1].v.ok /\ ~res[2].v.ok) =>
                     accepted = [i \in 1..10 |->
                                    to_eventbridge(events[i], BusName)]

\* C2: when some batch of a send_events call fails, the call returns an error
\* and what the bus accepted stays accepted: the accepted entries are those of
\* the batches that succeeded, nothing is ever taken back and no further
\* submission is made; 15 events go out as two submissions of 10 and 5
\* entries, and when the second fails and the first succeeds the call fails
\* with the first 10 events accepted.
C2_NoRollback ==
    /\ []PartialFailure
    /\ [][IsPrefix(accepted, accepted') /\ IsPrefix(requests, requests')]_vars

\* 15 events, the first batch accepted, the second failed
C2_Witness ==
    /\ Returned
    /\ Len(calls[1]) = 15
    /\ res[1].v.ok /\ ~res[2].v.ok
    /\ Len(accepted) = 10
    /\ ~result.v.ok

\* C3: send_events returns success exactly when every batch submission
\* succeeded; when some batch failed it returns the error of the first
\* failed batch of the response vector.
C3_AllOrError ==
    Returned =>
        /\ send_res.some
        /\ send_res.v.ok <=> NoBatchFailed
        /\ SomeBatchFailed =>
            \E k \in DOMAIN res :
                /\ ~res[k].v.ok
                /\ \A j \in 1..(k - 1) : res[j].v.ok
                /\ send_res.v = Err(SdkError(res[k].v.err))

\* three batches, the second and third failed with different errors
C3_Witness ==
    /\ Returned
    /\ Len(res) = 3
    /\ res[1].v.ok
    /\ res[2].v = Err("ThrottlingException")
    /\ res[3].v = Err("InternalException")
    /\ send_res.v = Err(SdkError("ThrottlingException"))

\* C4: send_events dispatches all batches concurrently: a batch that is not
\* sent yet can be sent and a request in flight can complete, with any
\* outcome, whatever the state of the other batches (none waits for the
\* response of another, a failed batch cancels none); the call returns only
\* once every batch was sent and has completed.
C4_Concurrent ==
    /\ pc = "dispatch" =>
        \A k \in DOMAIN res :
            /\ ~Submitted(k) => ENABLED Submit(k)
            /\ (Submitted(k) /\ ~res[k].some) =>
                \A o \in BusOutcomes : ENABLED Respond(k, o)
            /\ ~res[k].some => ~ENABLED Join
    /\ send_res.some =>
        /\ pc = "done"
        /\ Len(requests) = (Len(calls[1]) + 9) \div 10
        /\ \A k \in DOMAIN res : Submitted(k) /\ res[k].some

\* the third of three batches was sent first and failed while the first is
\* in flight and the second is not sent yet
C4_Witness ==
    /\ pc = "dispatch"
    /\ Len(res) = 3
    /\ requests /= <<>>
    /\ requests[1].batch = 3
    /\ res[3].some /\ ~res[3].v.ok
    /\ Submitted(1) /\ ~res[1].some
    /\ ~Submitted(2)

(***************************************************************************)
(* Properties of parse_events.                                             *)
(***************************************************************************)
\* some record of the payload does not decode
DecodeFails == \E i \in 1..Len(records) : ~from_dynamodb_record(records[i]).ok

\* C5: if a record of the payload fails to decode, the invocation fails and
\* no submission is ever issued for it (send_events is not even called);
\* whenever a submission was issued, every record had been decoded before,
\* with success.
C5_DecodeAllOrNothing ==
    /\ DecodeFails =>
        /\ requests = <<>> /\ accepted = <<>> /\ calls = <<>>
        /\ pc = "done" => result.some /\ ~result.v.ok
    /\ (calls /= <<>> \/ requests /= <<>>) =>
        \A i \in 1..Len(records) : decoded[i].some /\ decoded[i].v.ok

\* a payload of two records, the second with a malformed price, has failed
\* with the first record decoded and nothing submitted
C5_Witness ==
    /\ pc = "done"
    /\ Len(wire) = 2
    /\ wire[2].NewImage.some
    /\ wire[2].NewImage.v.price = AttrN(<<"1", "0", ",", "5">>)
    /\ decoded[1].some /\ decoded[1].v.ok
    /\ result = Some(Err(InternalError(<<"price", "is missing">>)))
    /\ requests = <<>>

\* the id the wire record carries in the image its kind names
WireId(w) ==
    IF w.eventName = "REMOVE" THEN w.OldImage.v.id.v ELSE w.NewImage.v.id.v

\* C6: when every record of the payload decodes, parse_events calls
\* send_events exactly once, with one event per record in the order of the
\* records: event i is the decoded record i, none added, dropped or
\* duplicated.
C6_EventsInOrder ==
    /\ Len(calls) <= 1
    /\ (pc = "done" /\ ~DecodeFails) => Len(calls) = 1
    /\ Len(calls) = 1 =>
        /\ ~DecodeFails
        /\ Len(calls[1]) = Len(records)
        /\ \A i \in 1..Len(records) :
            /\ Ok(calls[1][i]) = from_dynamodb_record(records[i])
            /\ EventId(calls[1][i]) = WireId(wire[i])

\* send_events was called with the 25 events of a payload of 25 records
C6_Witness ==
    /\ pc = "done"
    /\ Len(records) = 25
    /\ Len(calls) = 1
    /\ Len(calls[1]) = 25
    /\ EventId(calls[1][25]) = <<"2", "5">>

\* C7: parse_events returns success exactly when every record decoded and
\* send_events returned success; an error of send_events is returned as it
\* is, and send_events is not called again.
C7_Propagation ==
    /\ result.some <=> pc = "done"
    /\ pc = "done" =>
        /\ result.v.ok <=> (~DecodeFails /\ send_res.some /\ send_res.v.ok)
        /\ (send_res.some /\ ~send_res.v.ok) => result.v = Err(send_res.v.err)
        /\ Len(calls) <= 1

\* send_events failed on a throttled batch and parse_events returned that
\* error
C7_Witness ==
    /\ pc = "done"
    /\ send_res = Some(Err(SdkError("ThrottlingException")))
    /\ result = Some(Err(SdkError("ThrottlingException")))

(***************************************************************************)
(* Properties of the record decoder.                                       *)
(***************************************************************************)
\* the map holds id and name as strings and price as a number that parses
WellFormed(img) ==
    /\ {"id", "name", "price"} \subseteq DOMAIN img
    /\ img.id.tag = "S"
    /\ img.name.tag = "S"
    /\ img.price.tag = "N"
    /\ ParseF64(img.price.v).ok

\* the product whose fields are the values of a well-formed map
ProductOf(img) ==
    [id |-> img.id.v, name |-> img.name.v, price |-> ParseF64(img.price.v).v]

WithOld(r, img) == [r EXCEPT !.dynamodb.old_image = img]

WithNew(r, img) == [r EXCEPT !.dynamodb.new_image = img]

\* the records the decoder ran on
Decoded == {i \in 1..Len(records) : decoded[i].some}

\* C8: the decoder maps a record by its kind: INSERT gives Created with the
\* product of new_image, MODIFY gives Updated with old from old_image and new
\* from new_image, REMOVE gives Deleted with the product of old_image; the
\* image the kind does not name is not read: replacing it by any other image
\* gives the same result.
C8_DecodeByKind ==
    \A i \in Decoded :
        LET r == records[i]
            d == decoded[i].v
            old == r.dynamodb.old_image
            new == r.dynamodb.new_image
        IN  /\ r.event_name = "INSERT" =>
                /\ d.ok <=> WellFormed(new)
                /\ d.ok => d.v = [type |-> "Created", product |-> ProductOf(new)]
                /\ \A img \in AllImages : from_dynamodb_record(WithOld(r, img)) = d
            /\ (r.event_name = "MODIFY" /\ d.ok) =>
                d.v = [type |-> "Updated", old |-> ProductOf(old),
                       new |-> ProductOf(new)]
            /\ r.event_name = "REMOVE" =>
                /\ d.ok <=> WellFormed(old)
                /\ d.ok => d.v = [type |-> "Deleted", product |-> ProductOf(old)]
                /\ \A img \in AllImages : from_dynamodb_record(WithNew(r, img)) = d

\* a MODIFY of product 1 at 1.0 into product 2 at 10.5 decoded into Updated
\* with these two products
C8_Witness ==
    \E i \in Decoded :
        /\ records[i].event_name = "MODIFY"
        /\ decoded[i].v.ok
        /\ decoded[i].v.v.type = "Updated"
        /\ decoded[i].v.v.old = [id |-> <<"1">>, name |-> <<"a">>,
                                 price |-> [m |-> 1, e |-> 0]]
        /\ decoded[i].v.v.new = [id |-> <<"2">>, name |-> <<"a">>,
                                 price |-> [m |-> 105, e |-> 1]]

KnownKinds == {"INSERT", "MODIFY", "REMOVE"}

\* C9: a record whose kind is none of INSERT, MODIFY, REMOVE decodes to the
\* unknown-event-kind error whatever its images hold, and it is not skipped:
\* the invocation of a payload that holds one publishes nothing and fails
\* (with that error when the other records decode).
C9_UnknownKind ==
    /\ \A i \in Decoded :
        records[i].event_name \notin KnownKinds =>
            decoded[i].v = Err(InternalError("Unknown event type"))
    /\ (\E i \in 1..Len(records) : records[i].event_name \notin KnownKinds) =>
        /\ calls = <<>> /\ requests = <<>> /\ accepted = <<>>
        /\ pc = "done" => result = Some(Err(InternalError("Unknown event type")))

\* a REPLICATE record with two well-formed images, after a record that
\* decoded, made the invocation fail
C9_Witness ==
    /\ pc = "done"
    /\ Len(records) = 2
    /\ records[2].event_name = "REPLICATE"
    /\ WellFormed(records[2].dynamodb.old_image)
    /\ WellFormed(records[2].dynamodb.new_image)
    /\ decoded[1].some /\ decoded[1].v.ok
    /\ result = Some(Err(InternalError("Unknown event type")))

\* C10: a MODIFY record decodes exactly when its old image and its new image
\* both decode, each on its own; when one of them fails, or is absent from
\* the wire record, the record fails with the error of the image that
\* failed and there is no Updated event.
C10_ModifyBothImages ==
    \A i \in Decoded :
        LET r == records[i]
            d == decoded[i].v
            old == r.dynamodb.old_image
            new == r.dynamodb.new_image
        IN  r.event_name = "MODIFY" =>
                /\ d.ok <=> (WellFormed(old) /\ WellFormed(new))
                /\ (~wire[i].OldImage.some \/ ~wire[i].NewImage.some) => ~d.ok
                /\ ~WellFormed(old) => d = from_dynamodb(old)
                /\ (WellFormed(old) /\ ~WellFormed(new)) => d = from_dynamodb(new)
                /\ d.ok => /\ DOMAIN d.v = {"type", "old", "new"}
                           /\ d.v.old = ProductOf(old)
                           /\ d.v.new = ProductOf(new)

\* a MODIFY whose old image is absent from the wire record and whose new
\* image is well-formed failed on the id of the old image
C10_Witness ==
    \E i \in Decoded :
        /\ records[i].event_name = "MODIFY"
        /\ ~wire[i].OldImage.some
        /\ WellFormed(records[i].dynamodb.new_image)
        /\ decoded[i].v = Err(InternalError(<<"id", "is missing">>))
        /\ pc = "done"
        /\ ~result.v.ok

(***************************************************************************)
(* The other variants of AttributeValue (model.rs) and their accessors.    *)
(* The payload of a variant has its own field: b for Bool and Null, l for  *)
(* L, m for M, v for N and S, vs for Ns and Ss.                            *)
(***************************************************************************)
AttrBool(b) == [tag |-> "Bool", b |-> b]
AttrL(l) == [tag |-> "L", l |-> l]
AttrM(m) == [tag |-> "M", m |-> m]
AttrNs(ns) == [tag |-> "Ns", vs |-> ns]
AttrNull(b) == [tag |-> "Null", b |-> b]
AttrSs(ss) == [tag |-> "Ss", vs |-> ss]

as_bool(av) == IF av.tag = "Bool" THEN Some(av.b) ELSE None

as_l(av) == IF av.tag = "L" THEN Some(av.l) ELSE None

as_m(av) == IF av.tag = "M" THEN Some(av.m) ELSE None

as_null(av) == IF av.tag = "Null" THEN Some(av.b) ELSE None

\* ns.iter().filter_map(|n| n.parse::<f64>().ok()).collect()
RECURSIVE filter_map_parse(_)
filter_map_parse(ns) ==
    IF ns = <<>> THEN <<>>
    ELSE (IF ParseF64(Head(ns)).ok THEN <<ParseF64(Head(ns)).v>> ELSE <<>>)
         \o filter_map_parse(Tail(ns))

\* as_ns and as_ss return a Vec, not an Option: Default::default() is the
\* empty Vec
as_ns(av) == IF av.tag = "Ns" THEN filter_map_parse(av.vs) ELSE <<>>

as_ss(av) == IF av.tag = "Ss" THEN av.vs ELSE <<>>

\* the accessors, and the variant each one reads
Accessors ==
    {"as_bool", "as_l", "as_m", "as_n", "as_ns", "as_null", "as_s", "as_ss"}

VariantOf(name) ==
    CASE name = "as_bool" -> "Bool"
      [] name = "as_l" -> "L"
      [] name = "as_m" -> "M"
      [] name = "as_n" -> "N"
      [] name = "as_ns" -> "Ns"
      [] name = "as_null" -> "Null"
      [] name = "as_s" -> "S"
      [] name = "as_ss" -> "Ss"

\* what accessor name returns on av, with the kind of its return type
Access(name, av) ==
    CASE name = "as_bool" -> [ret |-> "Option", opt |-> as_bool(av)]
      [] name = "as_l" -> [ret |-> "Option", opt |-> as_l(av)]
      [] name = "as_m" -> [ret |-> "Option", opt |-> as_m(av)]
      [] name = "as_n" -> [ret |-> "Option", opt |-> as_n(av)]
      [] name = "as_ns" -> [ret |-> "Vec", vec |-> as_ns(av)]
      [] name = "as_null" -> [ret |-> "Option", opt |-> as_null(av)]
      [] name = "as_s" -> [ret |-> "Option", opt |-> as_s(av)]
      [] name = "as_ss" -> [ret |-> "Vec", vec |-> as_ss(av)]

(***************************************************************************)
(* TryFrom<&HashMap<String, AttributeValue>> for Product (model.rs): the   *)
(* second decoder of a stream image.  A message is the sequence of its     *)
(* words.                                                                  *)
(***************************************************************************)
try_from(value) ==
    LET id_av == ok_or(Get(value, "id"), InternalError(<<"Missing", "id">>))
        id == IF ~id_av.ok THEN id_av
              ELSE ok_or(as_s(id_av.v), InternalError(<<"id", "is not a string">>))
        name_av == ok_or(Get(value, "name"), InternalError(<<"Missing", "name">>))
        name == IF ~name_av.ok THEN name_av
                ELSE ok_or(as_s(name_av.v),
                           InternalError(<<"name", "is not a string">>))
        price_av == ok_or(Get(value, "price"),
                          InternalError(<<"Missing", "price">>))
        price == IF ~price_av.ok THEN price_av
                 ELSE ok_or(as_n(price_av.v),
                            InternalError(<<"price", "is not a number">>))
    IN  IF ~id.ok THEN id
        ELSE IF ~name.ok THEN name
        ELSE IF ~price.ok THEN price
        ELSE Ok([id |-> id.v, name |-> name.v, price |-> price.v])

(***************************************************************************)
(* The item codec of the DynamoDB store (store/dynamodb).                  *)
(***************************************************************************)
RECURSIVE Pow10(_)
Pow10(e) == IF e = 0 THEN 1 ELSE 10 * Pow10(e - 1)

\* the decimal digits of a natural number
RECURSIVE DigitsOf(_)
DigitsOf(n) ==
    IF n < 10 THEN <<Digits[n + 1]>>
    ELSE DigitsOf(n \div 10) \o <<Digits[(n % 10) + 1]>>

\* the last w decimal digits of n, with leading zeros
RECURSIVE Pad(_, _)
Pad(n, w) ==
    IF w = 0 THEN <<>> ELSE Pad(n \div 10, w - 1) \o <<Digits[(n % 10) + 1]>>

\* a faulty variant of FormatF64: the fraction is written without its leading
\* zeros
FormatF64Unpadded(x) ==
    IF x = NaN THEN NaNLit
    ELSE IF x = Inf(FALSE) THEN InfLit
    ELSE IF x = Inf(TRUE) THEN <<"-">> \o InfLit
    ELSE LET mag == IF x.m < 0 THEN 0 - x.m ELSE x.m
             int == mag \div Pow10(x.e)
             frac == mag % Pow10(x.e)
         IN  (IF x.m < 0 THEN <<"-">> ELSE <<>>)
             \o DigitsOf(int)
             \o (IF x.e = 0 THEN <<>> ELSE <<".">> \o DigitsOf(frac))

\* format!("{:}", price): Display of f64 writes the shortest decimal that
\* parses back to the value, never with an exponent, and NaN and inf by name
FormatF64(x) ==
    IF x = NaN THEN NaNLit
    ELSE IF x = Inf(FALSE) THEN InfLit
    ELSE IF x = Inf(TRUE) THEN <<"-">> \o InfLit
    ELSE LET mag == IF x.m < 0 THEN 0 - x.m ELSE x.m
             int == mag \div Pow10(x.e)
             frac == mag % Pow10(x.e)
         IN  (IF x.m < 0 THEN <<"-">> ELSE <<>>)
             \o DigitsOf(int)
             \o (IF x.e = 0 THEN <<>> ELSE <<".">> \o Pad(frac, x.e))

\* From<&Product> for HashMap<String, AttributeValue>
from_product(value) ==
    [id |-> AttrS(value.id), name |-> AttrS(value.name),
     price |-> AttrN(FormatF64(value.price))]

\* AttributeValuesExt::get_s: self.get(key)?.as_s().ok()?.to_owned()
get_s(item, key) ==
    IF ~Get(item, key).some THEN None ELSE as_s(Get(item, key).v)

\* AttributeValuesExt::get_n: self.get(key)?.as_n().ok()?.parse::<f64>().ok()
get_n(item, key) ==
    IF ~Get(item, key).some THEN None
    ELSE IF Get(item, key).v.tag /= "N" THEN None
    ELSE IF ParseF64(Get(item, key).v.v).ok
         THEN Some(ParseF64(Get(item, key).v.v).v)
    ELSE None

\* TryFrom<HashMap<String, AttributeValue>> for Product of the store
store_try_from(value) ==
    LET id == ok_or(get_s(value, "id"), InternalError(<<"Missing", "id">>))
        name == ok_or(get_s(value, "name"), InternalError(<<"Missing", "name">>))
        price == ok_or(get_n(value, "price"),
                       InternalError(<<"Missing", "price">>))
    IN  IF ~id.ok THEN id
        ELSE IF ~name.ok THEN name
        ELSE IF ~price.ok THEN price
        ELSE Ok([id |-> id.v, name |-> name.v, price |-> price.v])

\* == of f64, and == of Product as derived by PartialEq
F64Eq(a, b) == a /= NaN /\ b /= NaN /\ a = b

ProductEq(p, q) == p.id = q.id /\ p.name = q.name /\ F64Eq(p.price, q.price)

(***************************************************************************)
(* The conversions on their own: one value, item or product is drawn and   *)
(* a conversion is applied to it.                                          *)
(***************************************************************************)
\* values of every variant, with numbers that parse and numbers that do not
AttrValues ==
    {AttrBool(TRUE), AttrBool(FALSE),
     AttrL(<<>>), AttrL(<<AttrS(<<"a">>)>>),
     AttrM(EmptyMap), AttrM([id |-> AttrS(<<"1">>)]),
     AttrN(<<"1", ".", "0">>), AttrN(<<"1", "0", ".", "5">>),
     AttrN(<<"a", "b", "c">>), AttrN(<<>>), AttrN(<<"1", "0", ",", "5">>),
     AttrNs(<<>>), AttrNs(<<(<<"1", ".", "0">>), <<"2">>>>),
     AttrNs(<<(<<"1", ".", "0">>), <<"a", "b", "c">>, <<"2">>>>),
     AttrNs(<<(<<"a", "b", "c">>)>>),
     AttrNull(TRUE), AttrNull(FALSE),
     AttrS(<<"a">>), AttrS(<<>>), AttrS(<<"1", ".", "0">>),
     AttrSs(<<>>), AttrSs(<<(<<"a">>), <<"b">>>>)}

\* prices: 1, 1.5, 1.005, -0.25, 0, 0.05, 25600, NaN, inf, -inf
ProductPrices ==
    {[m |-> 1, e |-> 0], [m |-> 15, e |-> 1], [m |-> 1005, e |-> 3],
     [m |-> 0 - 25, e |-> 2], [m |-> 0, e |-> 0], [m |-> 5, e |-> 2],
     [m |-> 25600, e |-> 0], NaN, Inf(FALSE), Inf(TRUE)}

Products ==
    [id : {<<"1">>, <<"i", "d">>}, name : {<<"a">>, <<>>}, price : ProductPrices]

CodecInputs ==
    {[kind |-> "value", av |-> av] : av \in AttrValues}
    \cup {[kind |-> "item", item |-> img] : img \in AllImages}
    \cup {[kind |-> "product", product |-> p] : p \in Products}

pipeline_vars ==
    <<wire, records, pc, wpos, decoded, saved_err, calls, requests, res,
      accepted, send_res, result>>

\* the state a conversion does not touch
non_codec_vars == <<pipeline_vars, failures, http_vars, extra_vars>>

InitCodec ==
    /\ InitWith(<<>>)
    /\ failures = 0
    /\ ExtraIdle
    /\ HttpIdle
    /\ codec_in \in CodecInputs
    /\ codec_op = <<>>
    /\ codec_out = None

\* one accessor is called on the value
ApplyAccessor(name) ==
    /\ codec_in.kind = "value"
    /\ codec_op = <<>>
    /\ codec_op' = <<name>>
    /\ codec_out' = Access(name, codec_in.av)
    /\ UNCHANGED <<codec_in, non_codec_vars>>

\* Product::from_dynamodb(&item), the decoder parse_events uses
ApplyFromDynamodb ==
    /\ codec_in.kind = "item"
    /\ codec_op = <<>>
    /\ codec_op' = <<"from_dynamodb">>
    /\ codec_out' = from_dynamodb(codec_in.item)
    /\ UNCHANGED <<codec_in, non_codec_vars>>

\* (&item).try_into(), the decoder of model.rs
ApplyTryFrom ==
    /\ codec_in.kind = "item"
    /\ codec_op = <<>>
    /\ codec_op' = <<"try_from">>
    /\ codec_out' = try_from(codec_in.item)
    /\ UNCHANGED <<codec_in, non_codec_vars>>

\* item.get_n("price") of the store
ApplyGetN ==
    /\ codec_in.kind = "item"
    /\ codec_op = <<>>
    /\ codec_op' = <<"get_n">>
    /\ codec_out' = get_n(codec_in.item, "price")
    /\ UNCHANGED <<codec_in, non_codec_vars>>

\* item.try_into() of the store
ApplyStoreTryFrom ==
    /\ codec_in.kind = "item"
    /\ codec_op = <<>>
    /\ codec_op' = <<"store_try_from">>
    /\ codec_out' = store_try_from(codec_in.item)
    /\ UNCHANGED <<codec_in, non_codec_vars>>

\* (&product).into(), the item the store writes
Encode ==
    /\ codec_in.kind = "product"
    /\ codec_op = <<>>
    /\ codec_op' = <<"from">>
    /\ codec_out' = from_product(codec_in.product)
    /\ UNCHANGED <<codec_in, non_codec_vars>>

\* the written item read back: item.try_into()
DecodeBack ==
    /\ codec_op = <<"from">>
    /\ codec_op' = <<"from", "store_try_from">>
    /\ codec_out' = store_try_from(codec_out)
    /\ UNCHANGED <<codec_in, non_codec_vars>>

NextCodec ==
    \/ \E name \in Accessors : ApplyAccessor(name)
    \/ ApplyFromDynamodb
    \/ ApplyTryFrom
    \/ ApplyGetN
    \/ ApplyStoreTryFrom
    \/ Encode
    \/ DecodeBack

SpecCodec == InitCodec /\ [][NextCodec]_vars

(***************************************************************************)
(* Properties of the conversions.                                          *)
(***************************************************************************)
\* field f of the map is present with the variant a Product needs, and its
\* number parses
FieldOk(img, f) ==
    /\ f \in DOMAIN img
    /\ img[f].tag = (IF f = "price" THEN "N" ELSE "S")
    /\ (f = "price" => ParseF64(img[f].v).ok)

\* field f is absent or holds another variant
MissingOrWrong(img, f) ==
    \/ f \notin DOMAIN img
    \/ img[f].tag /= (IF f = "price" THEN "N" ELSE "S")

\* the first field, in the order id, name, price, that fails the decode
FirstBad(img) ==
    IF ~FieldOk(img, "id") THEN "id"
    ELSE IF ~FieldOk(img, "name") THEN "name"
    ELSE IF ~FieldOk(img, "price") THEN "price"
    ELSE "none"

\* the error's message names field f
NamesField(err, f) == \E w \in DOMAIN err.msg : err.msg[w] = f

\* one of the two decoders of a stream image was applied
ImageDecoded == codec_op \in {<<"from_dynamodb">>, <<"try_from">>}

\* C11: decoding a Product from an attribute map (by either decoder of the
\* stream entrypoint) succeeds only when id and name are present as strings
\* and price as a number, and then the product's fields are the map's values;
\* when a field is missing or wrong-typed the decode fails, the error names
\* the first offending field and only it, and the result holds no product.
C11_ProductDecode ==
    ImageDecoded =>
        LET img == codec_in.item
        IN  /\ codec_out.ok =>
                /\ \A f \in {"id", "name", "price"} : ~MissingOrWrong(img, f)
                /\ codec_out.v = ProductOf(img)
            /\ WellFormed(img) => codec_out.ok
            /\ (\E f \in {"id", "name", "price"} : MissingOrWrong(img, f)) =>
                ~codec_out.ok
            /\ ~codec_out.ok =>
                /\ DOMAIN codec_out = {"ok", "err"}
                /\ \A f \in {"id", "name", "price"} :
                       NamesField(codec_out.err, f) <=> f = FirstBad(img)

\* the model.rs decoder on a map with an id but no name: "Missing name"
C11_Witness ==
    /\ codec_op = <<"try_from">>
    /\ FieldOk(codec_in.item, "id")
    /\ "name" \notin DOMAIN codec_in.item
    /\ ~codec_out.ok
    /\ codec_out.err = InternalError(<<"Missing", "name">>)

\* an accessor was called on a value of another variant than the one it reads
WrongVariantCall ==
    /\ codec_in.kind = "value"
    /\ Len(codec_op) = 1
    /\ codec_op[1] \in Accessors
    /\ codec_in.av.tag /= VariantOf(codec_op[1])

\* C12: every typed accessor of AttributeValue (bool, null, list, map, string,
\* number, string-set, number-set) called on a value of a different variant
\* reports a decode error, that is returns no value: never a default such as
\* an empty collection.
C12_WrongVariantIsError ==
    WrongVariantCall => (codec_out.ret = "Option" /\ ~codec_out.opt.some)

\* a numeric accessor was called on a number, a number set or a price that
\* holds a string which does not parse
UnparsableCall ==
    /\ Len(codec_op) = 1
    /\ \/ /\ codec_op[1] = "as_n"
          /\ codec_in.av.tag = "N"
          /\ ~ParseF64(codec_in.av.v).ok
       \/ /\ codec_op[1] = "as_ns"
          /\ codec_in.av.tag = "Ns"
          /\ \E i \in DOMAIN codec_in.av.vs : ~ParseF64(codec_in.av.vs[i]).ok
       \/ /\ codec_op[1] = "get_n"
          /\ "price" \in DOMAIN codec_in.item
          /\ codec_in.item.price.tag = "N"
          /\ ~ParseF64(codec_in.item.price.v).ok

\* the call returned no value
NoValue ==
    IF codec_op[1] = "get_n" THEN ~codec_out.some
    ELSE codec_out.ret = "Option" /\ ~codec_out.opt.some

\* C13: a numeric wire value whose string does not parse is a decode error in
\* every numeric accessor (as_n, as_ns, get_n): the call returns no value; the
\* number is not replaced by zero and not dropped from the result.
C13_UnparsableIsError == UnparsableCall => NoValue

(***************************************************************************)
(* Properties of the bus entries.                                          *)
(***************************************************************************)
\* the event that entry j of request q renders
EventOf(q, j) == calls[Len(calls)][(requests[q].batch - 1) * BatchSize + j]

\* C14: every event is rendered as one bus entry: Source is rust-products;
\* DetailType is ProductCreated, ProductUpdated or ProductDeleted by variant;
\* Resources holds exactly the event's id, the product's id for Created and
\* Deleted and the id of new for Updated; Detail is the event's JSON, whose
\* member type is the variant's name, followed by the products of the event;
\* EventBusName is the configured bus; the entry has no other field.
C14_BusEntry ==
    \A q \in DOMAIN requests :
        /\ Len(requests[q].entries) = Len(Batches[requests[q].batch])
        /\ \A j \in DOMAIN requests[q].entries :
            LET en == requests[q].entries[j]
                e == EventOf(q, j)
            IN  /\ DOMAIN en = {"EventBusName", "Source", "DetailType",
                                "Resources", "Detail"}
                /\ en.Source = "rust-products"
                /\ en.EventBusName = BusName
                /\ e.type = "Created" =>
                    /\ en.DetailType = "ProductCreated"
                    /\ en.Resources = <<e.product.id>>
                    /\ en.Detail = <<(<<"type", "Created">>),
                                     <<"product", ProductJson(e.product)>>>>
                /\ e.type = "Updated" =>
                    /\ en.DetailType = "ProductUpdated"
                    /\ en.Resources = <<e.new.id>>
                    /\ en.Detail = <<(<<"type", "Updated">>),
                                     <<"old", ProductJson(e.old)>>,
                                     <<"new", ProductJson(e.new)>>>>
                /\ e.type = "Deleted" =>
                    /\ en.DetailType = "ProductDeleted"
                    /\ en.Resources = <<e.product.id>>
                    /\ en.Detail = <<(<<"type", "Deleted">>),
                                     <<"product", ProductJson(e.product)>>>>

\* an Updated event from product 1 to product 2 was submitted with the
\* resource 2
C14_Witness ==
    \E q \in DOMAIN requests : \E j \in DOMAIN requests[q].entries :
        /\ EventOf(q, j).type = "Updated"
        /\ EventOf(q, j).old.id = <<"1">>
        /\ EventOf(q, j).new.id = <<"2">>
        /\ requests[q].entries[j].Resources = <<(<<"2">>)>>
        /\ requests[q].entries[j].DetailType = "ProductUpdated"

(***************************************************************************)
(* Properties of one invocation: no retry.                                 *)
(***************************************************************************)
\* the places (request, entry) that carry the entry of event i
PlacesOf(i) ==
    {pl \in (DOMAIN requests) \X (1..BatchSize) :
        /\ pl[2] \in DOMAIN requests[pl[1]].entries
        /\ (requests[pl[1]].batch - 1) * BatchSize + pl[2] = i}

\* C15: the core never retries.  Within one send_events call no batch is
\* submitted twice; once the call has returned, with or without failed
\* submissions, every batch was submitted exactly once and every input event
\* is in exactly one submission, which holds nothing else; parse_events calls
\* send_events at most once.
C15_NoRetry ==
    /\ Len(calls) <= 1
    /\ \A q1, q2 \in DOMAIN requests :
           requests[q1].batch = requests[q2].batch => q1 = q2
    /\ Returned =>
        LET events == calls[1]
        IN  /\ \A k \in DOMAIN res :
                   Cardinality({q \in DOMAIN requests : requests[q].batch = k}) = 1
            /\ \A i \in 1..Len(events) :
                   /\ Cardinality(PlacesOf(i)) = 1
                   /\ \A pl \in PlacesOf(i) :
                          requests[pl[1]].entries[pl[2]]
                              = to_eventbridge(events[i], BusName)
            /\ \A q \in DOMAIN requests : \A j \in DOMAIN requests[q].entries :
                   (requests[q].batch - 1) * BatchSize + j \in 1..Len(events)

\* send_events returned after three submissions of which one failed, and
\* there are still three requests
C15_Witness ==
    /\ Returned
    /\ SomeBatchFailed
    /\ Len(calls[1]) = 25
    /\ Len(requests) = 3
    /\ ~result.v.ok

(***************************************************************************)
(* The invocation under its caller: the stream source invokes parse_events *)
(* again with the same payload after every failed invocation.  The bus     *)
(* keeps what it accepted across the invocations, and it fails or partly   *)
(* rejects at most MaxFailures requests before it accepts every request.   *)
(***************************************************************************)
MaxFailures == 2

MaxRetryRecords == 11

RetryPayloads ==
    UNION {{Payload(n, bad) : bad \in BadChoices(n)} : n \in 0..MaxRetryRecords}

InitRetry ==
    /\ \E payload \in RetryPayloads : InitWith(payload)
    /\ CodecIdle
    /\ failures = 0
    /\ ExtraIdle
    /\ HttpIdle

\* a request completes: it failed, or the bus accepted its entries
RespondBudget(k, o) ==
    /\ Respond(k, o)
    /\ o /= "ok" => failures < MaxFailures
    /\ failures' = IF o = "ok" THEN failures ELSE failures + 1
    /\ UNCHANGED <<codec_vars, http_vars, extra_vars>>

\* the entries of a sequence but entry j
Without(entries, j) ==
    SubSeq(entries, 1, j - 1) \o SubSeq(entries, j + 1, Len(entries))

\* the request of batch k completes with Ok(PutEventsOutput) although the bus
\* rejected entry j: the output, which records it, is dropped by send_events
\* like every other output
RespondPartial(k, j) ==
    /\ pc = "dispatch"
    /\ k \in DOMAIN res
    /\ Submitted(k)
    /\ ~res[k].some
    /\ j \in {1, Len(Batches[k])}
    /\ failures < MaxFailures
    /\ failures' = failures + 1
    /\ res' = [res EXCEPT ![k] = Some(Ok("PutEventsOutput"))]
    /\ accepted' = accepted \o Without(Entries(Batches[k], BusName), j)
    /\ UNCHANGED <<wire, records, pc, wpos, decoded, saved_err, calls,
                   requests, send_res, result, codec_vars, http_vars,
                   extra_vars>>

\* the caller invokes parse_events again with the same payload
Retry ==
    /\ pc = "done"
    /\ result.some
    /\ ~result.v.ok
    /\ pc' = "decode"
    /\ wpos' = [w \in 1..NumWorkers |-> First(w, Len(wire))]
    /\ decoded' = [i \in 1..Len(wire) |-> None]
    /\ saved_err' = None
    /\ calls' = <<>>
    /\ requests' = <<>>
    /\ res' = <<>>
    /\ send_res' = None
    /\ result' = None
    /\ UNCHANGED <<wire, records, accepted, side_vars>>

\* the steps of the invocation, which leave the rest of the state alone
DecodeRun == (\E w \in 1..NumWorkers : DecodeStep(w)) /\ UNCHANGED side_vars

CollectRun == Collect /\ UNCHANGED side_vars

SubmitRun == (\E k \in DOMAIN res : Submit(k)) /\ UNCHANGED side_vars

AnswerRun == \E k \in DOMAIN res, o \in BusOutcomes : RespondBudget(k, o)

JoinRun == Join /\ UNCHANGED side_vars

NextRetry ==
    \/ DecodeRun
    \/ CollectRun
    \/ SubmitRun
    \/ AnswerRun
    \/ \E k \in DOMAIN res, j \in 1..BatchSize : RespondPartial(k, j)
    \/ JoinRun
    \/ Retry

\* the rayon workers run until the decode is over, every future of join_all
\* is polled, the bus answers every request and the caller invokes again
\* after a failure
FairRetry ==
    /\ (pc = "decode") ~> DecodeOver
    /\ WF_vars(CollectRun)
    /\ WF_vars(SubmitRun)
    /\ WF_vars(AnswerRun)
    /\ WF_vars(JoinRun)
    /\ WF_vars(Retry)

SpecRetry == InitRetry /\ [][NextRetry]_vars /\ FairRetry

\* an invocation has returned Ok(())
Succeeded == pc = "done" /\ result = Some(Ok("()"))

\* the bus has accepted the entry of every event of the payload, in this
\* invocation or in an earlier one
AllAccepted ==
    /\ Len(calls) = 1
    /\ \A i \in 1..Len(wire) :
           \E a \in DOMAIN accepted :
               accepted[a] = to_eventbridge(calls[1][i], BusName)

\* C16: at-least-once delivery.  With a caller that invokes again after every
\* failed invocation and a bus that accepts every request in the end, no
\* event of a payload whose invocation succeeded is left unaccepted, and
\* eventually an invocation succeeds with every event of the payload accepted
\* (some of them possibly more than once).
C16_AtLeastOnce ==
    /\ [](Succeeded => AllAccepted)
    /\ <>(Succeeded /\ AllAccepted)

(***************************************************************************)
(* What a reported failure tells about its cause.                          *)
(***************************************************************************)
\* the image of the same change made to the product with key id
WithKey(image, id) ==
    IF "id" \in DOMAIN image
    THEN [image EXCEPT !["id"] = AttrS(id)]
    ELSE image

\* the stream record of the same change made to another product
Twin(r) ==
    [r EXCEPT !.dynamodb.new_image = WithKey(@, <<"t", "w", "i", "n">>),
              !.dynamodb.old_image = WithKey(@, <<"t", "w", "i", "n">>)]

\* vector s with the elements at i and j exchanged
Exchange(s, i, j) ==
    [q \in DOMAIN s |-> IF q = i THEN s[j] ELSE IF q = j THEN s[i] ELSE s[q]]

\* parse_events has returned the error record i failed to decode with
DecodeFailureAt(i) ==
    /\ pc = "done"
    /\ result.some /\ ~result.v.ok
    /\ saved_err.some
    /\ decoded[i].some /\ ~decoded[i].v.ok

\* parse_events has returned the error of send_events, and the request of
\* batch k is one that failed
PublishFailureAt(k) ==
    /\ pc = "done"
    /\ result.some /\ ~result.v.ok
    /\ send_res.some
    /\ res[k].some /\ ~res[k].v.ok

\* C17: every failure the pipeline reports tells its cause.  The error of a
\* decode failure is one no other record reports (the record of another
\* product failing in the same way reports a different error), and the error
\* of a publish failure is one that the failure of another batch would not
\* report (had a batch that succeeded failed in place of batch k, the error
\* would differ).
C17_ErrorContext ==
    /\ \A i \in DOMAIN records :
           DecodeFailureAt(i) =>
               /\ Twin(records[i]) /= records[i]
               /\ from_dynamodb_record(Twin(records[i])) /= decoded[i].v
    /\ \A k \in DOMAIN res :
           PublishFailureAt(k) =>
               \A other \in DOMAIN res :
                   (res[other].some /\ res[other].v.ok) =>
                       Some(Propagate(CollectResults(Exchange(res, k, other))))
                           /= result

(***************************************************************************)
(* The HTTP layer: the handlers of the API Gateway functions and of the    *)
(* container, over a store that holds the attribute map of each product    *)
(* under the product's id.                                                 *)
(***************************************************************************)
\* (price * 100.0).round() / 100.0: to two decimals, a half away from zero.
\* For a decimal whose digits after the second are exactly a half the f64
\* product can fall on either side; the prices of HttpPrices have none.
Round2(x) ==
    IF x = NaN \/ x = Inf(FALSE) \/ x = Inf(TRUE) THEN x
    ELSE IF x.e <= 2 THEN x
    ELSE LET d == Pow10(x.e - 2)
             mag == IF x.m < 0 THEN 0 - x.m ELSE x.m
             r == (mag + (d \div 2)) \div d
         IN  Normalise(IF x.m < 0 THEN 0 - r ELSE r, 2)

\* StorePut::put: create or replace the item of the product
StorePut(s, product) ==
    [k \in DOMAIN s \cup {product.id} |->
        IF k = product.id THEN from_product(product) ELSE s[k]]

\* StoreDelete::delete
StoreDelete(s, id) == [k \in DOMAIN s \ {id} |-> s[k]]

\* StoreGet::get: Ok(None) without an item, and the decoded item otherwise
StoreGet(s, id) ==
    IF id \notin DOMAIN s THEN Ok(None)
    ELSE LET product == store_try_from(s[id])
         IN  IF product.ok THEN Ok(Some(product.v)) ELSE product

\* StoreGetAll::all: the products of the table, in no order
StoreAll(s) ==
    IF \E k \in DOMAIN s : ~store_try_from(s[k]).ok
    THEN store_try_from(s[CHOOSE k \in DOMAIN s : ~store_try_from(s[k]).ok])
    ELSE Ok({store_try_from(s[k]).v : k \in DOMAIN s})

\* a faulty variant of domain_put_product: the price is stored as given
domain_put_product_exact(s, product) == StorePut(s, product)

\* domain::put_product, on a store that answers Ok
domain_put_product(s, product) ==
    StorePut(s, [product EXCEPT !.price = Round2(@)])

\* the member key of a JSON object
JsonGet(obj, key) ==
    IF \E q \in DOMAIN obj : obj[q][1] = key
    THEN Some(obj[CHOOSE q \in DOMAIN obj : obj[q][1] = key][2])
    ELSE None

\* serde_json::from_str::<Product>: every member of Product is required
from_str(obj) ==
    LET id == JsonGet(obj, "id")
        name == JsonGet(obj, "name")
        price == JsonGet(obj, "price")
    IN  IF id.some /\ name.some /\ price.some
        THEN Ok([id |-> id.v, name |-> name.v, price |-> price.v])
        ELSE Err("missing field")

\* Request::payload(): Ok(None) without a body
payload(body) ==
    IF ~body.some THEN Ok(None)
    ELSE LET product == from_str(body.v)
         IN  IF product.ok THEN Ok(Some(product.v)) ELSE product

\* a response: its status, the message of its body and the products of its
\* body
response(status, message, products) ==
    [status |-> status, message |-> message, products |-> products]

\* prices of the request bodies: 2.5 and 1.236
HttpPrices == {[m |-> 25, e |-> 1], [m |-> 1236, e |-> 3]}

HttpIds == {<<"1">>, <<"2">>}

HttpProducts == [id : HttpIds, name : {<<"a">>}, price : HttpPrices]

\* the id of the path: absent, or one of the ids
PathIds == {None} \cup {Some(id) : id \in HttpIds}

\* the body of a request: absent, an object that is no Product (no price),
\* or the JSON object of a product
Bodies ==
    {None, Some(<<(<<"id", <<"1">>>>), <<"name", <<"a">>>>>>)}
        \cup {Some(ProductJson(product)) : product \in HttpProducts}

\* the request served last and its response, without the one before it
Exchanged(h) ==
    IF h.method = "none" THEN h
    ELSE [method |-> h.method, id |-> h.id, body |-> h.body,
          stored |-> h.stored, status |-> h.status, message |-> h.message,
          products |-> h.products]

\* the handler returns resp to the request; stored tells how the call of the
\* store ended ("none": the store was not called)
Answer(method, id, body, stored, resp) ==
    http_last' = [method |-> method, id |-> id, body |-> body,
                  stored |-> stored, status |-> resp.status,
                  message |-> resp.message, products |-> resp.products,
                  before |-> Exchanged(http_last)]

InitHttp ==
    /\ InitWith(<<>>)
    /\ CodecIdle
    /\ failures = 0
    /\ ExtraIdle
    /\ http_entry \in {"lambda", "container"}
    /\ store = EmptyMap
    /\ http_last = [method |-> "none"]

\* what a request leaves alone
non_http_vars ==
    <<pipeline_vars, codec_vars, failures, http_entry, extra_vars>>

\* apigateway::put_product; ok: the store answers Ok
apigateway_put_product(id, body, ok) ==
    /\ http_entry = "lambda"
    /\ LET product == payload(body)
       IN  IF ~id.some THEN
               /\ Answer("PUT", id, body, "none",
                         response(400, "Missing 'id' parameter in path", {}))
               /\ store' = store
           ELSE IF product.ok /\ ~product.v.some THEN
               /\ Answer("PUT", id, body, "none",
                         response(400, "Missing product in request body", {}))
               /\ store' = store
           ELSE IF ~product.ok THEN
               /\ Answer("PUT", id, body, "none",
                         response(400,
                                  "Failed to parse product from request body",
                                  {}))
               /\ store' = store
           ELSE IF product.v.v.id /= id.v THEN
               /\ Answer("PUT", id, body, "none",
                         response(400,
                 "Product ID in path does not match product ID in body", {}))
               /\ store' = store
           ELSE IF ok THEN
               /\ Answer("PUT", id, body, "ok",
                         response(201, "Product created", {}))
               /\ store' = domain_put_product(store, product.v.v)
           ELSE
               /\ Answer("PUT", id, body, "err",
                         response(500, "Failed to create product", {}))
               /\ store' = store
    /\ UNCHANGED non_http_vars

\* apigateway::get_product
apigateway_get_product(id, ok) ==
    /\ http_entry = "lambda"
    /\ LET product == StoreGet(store, id.v)
       IN  IF ~id.some THEN
               Answer("GET", id, None, "none",
                      response(400, "Missing 'id' parameter in path", {}))
           ELSE IF ~ok \/ ~product.ok THEN
               Answer("GET", id, None, "err",
                      response(500, "Error fetching product", {}))
           ELSE IF product.v.some THEN
               Answer("GET", id, None, "ok", response(200, "", {product.v.v}))
           ELSE
               Answer("GET", id, None, "ok",
                      response(404, "Product not found", {}))
    /\ UNCHANGED <<store, non_http_vars>>

\* apigateway::get_products
apigateway_get_products(ok) ==
    /\ http_entry = "lambda"
    /\ LET range == StoreAll(store)
       IN  IF ok /\ range.ok
           THEN Answer("GET_ALL", None, None, "ok", response(200, "", range.v))
           ELSE Answer("GET_ALL", None, None, "err",
                       response(500, "Something went wrong", {}))
    /\ UNCHANGED <<store, non_http_vars>>

\* apigateway::delete_product
apigateway_delete_product(id, ok) ==
    /\ http_entry = "lambda"
    /\ IF ~id.some THEN
           /\ Answer("DELETE", id, None, "none",
                     response(400, "Missing 'id' parameter in path", {}))
           /\ store' = store
       ELSE IF ok THEN
           /\ Answer("DELETE", id, None, "ok",
                     response(200, "Product deleted", {}))
           /\ store' = StoreDelete(store, id.v)
       ELSE
           /\ Answer("DELETE", id, None, "err",
                     response(500, "Failed to delete product", {}))
           /\ store' = store
    /\ UNCHANGED non_http_vars

\* container::put_product, routed by #[rocket::put("/<id>", data =
\* "<product>")]: the path always has an id and the handler never looks at
\* it.  The String it returns is answered with 200; the panic of unwrap() on
\* a body that is no Product is answered with 500 by the server.
container_put_product(id, body, ok) ==
    /\ http_entry = "container"
    /\ id.some
    /\ LET product == IF body.some THEN from_str(body.v)
                      ELSE Err("EOF while parsing a value")
       IN  IF ~product.ok THEN
               /\ Answer("PUT", id, body, "none",
                         response(500, "Internal Server Error", {}))
               /\ store' = store
           ELSE IF ok THEN
               /\ Answer("PUT", id, body, "ok",
                         response(200, "Product created", {}))
               /\ store' = domain_put_product(store, product.v)
           ELSE
               /\ Answer("PUT", id, body, "err",
                         response(200, "Failed to create product", {}))
               /\ store' = store
    /\ UNCHANGED non_http_vars

\* container::get_product: json!(product) of Ok(None) is null
container_get_product(id, ok) ==
    /\ http_entry = "container"
    /\ id.some
    /\ LET product == StoreGet(store, id.v)
       IN  IF ~ok \/ ~product.ok THEN
               Answer("GET", id, None, "err",
                      response(200, "Failed to get product", {}))
           ELSE IF product.v.some THEN
               Answer("GET", id, None, "ok", response(200, "", {product.v.v}))
           ELSE
               Answer("GET", id, None, "ok", response(200, "null", {}))
    /\ UNCHANGED <<store, non_http_vars>>

\* container::get_products
container_get_products(ok) ==
    /\ http_entry = "container"
    /\ LET range == StoreAll(store)
       IN  IF ok /\ range.ok
           THEN Answer("GET_ALL", None, None, "ok", response(200, "", range.v))
           ELSE Answer("GET_ALL", None, None, "err",
                       response(200, "Something went wrong", {}))
    /\ UNCHANGED <<store, non_http_vars>>

\* container::delete_product
container_delete_product(id, ok) ==
    /\ http_entry = "container"
    /\ id.some
    /\ IF ok THEN
           /\ Answer("DELETE", id, None, "ok",
                     response(200, "Product deleted", {}))
           /\ store' = StoreDelete(store, id.v)
       ELSE
           /\ Answer("DELETE", id, None, "err",
                     response(200, "Failed to delete product", {}))
           /\ store' = store
    /\ UNCHANGED non_http_vars

NextHttp ==
    \/ \E id \in PathIds, body \in Bodies, ok \in BOOLEAN :
           apigateway_put_product(id, body, ok)
    \/ \E id \in PathIds, ok \in BOOLEAN : apigateway_get_product(id, ok)
    \/ \E ok \in BOOLEAN : apigateway_get_products(ok)
    \/ \E id \in PathIds, ok \in BOOLEAN : apigateway_delete_product(id, ok)
    \/ \E id \in PathIds, body \in Bodies, ok \in BOOLEAN :
           container_put_product(id, body, ok)
    \/ \E id \in PathIds, ok \in BOOLEAN : container_get_product(id, ok)
    \/ \E ok \in BOOLEAN : container_get_products(ok)
    \/ \E id \in PathIds, ok \in BOOLEAN : container_delete_product(id, ok)

SpecHttp == InitHttp /\ [][NextHttp]_vars

\* the request served last is a PUT that may write: its path has an id, its
\* body is present and parses as a Product, and the id of the product is the
\* id of the path
PutValid ==
    /\ http_last.id.some
    /\ http_last.body.some
    /\ from_str(http_last.body.v).ok
    /\ from_str(http_last.body.v).v.id = http_last.id.v

\* the 400 message of the first check the request fails
PutMessage ==
    IF ~http_last.id.some THEN "Missing 'id' parameter in path"
    ELSE IF ~http_last.body.some THEN "Missing product in request body"
    ELSE IF ~from_str(http_last.body.v).ok
        THEN "Failed to parse product from request body"
    ELSE "Product ID in path does not match product ID in body"

\* C18: put_product writes to the store only when the path has an id, the
\* body is present and parses as a Product, and the product's id is the
\* path's; every other PUT is answered 400 with the message of the failed
\* check and leaves the store as it was.
C18_PutValidated ==
    [][(http_last'.method = "PUT" /\ http_last' /= http_last
           /\ ~PutValid')
        => /\ http_last'.status = 400
           /\ http_last'.message = PutMessage'
           /\ store' = store]_vars

(***************************************************************************)
(* The CRUD sequence over the API Gateway handlers.                        *)
(***************************************************************************)
\* request h was a PUT answered 201
PutCreated(h) == h.method = "PUT" /\ h.status = 201

\* request h was a DELETE answered 200
Deleted200(h) == h.method = "DELETE" /\ h.status = 200

\* the request served last is a GET of the id of the request before it, and
\* the store did not fail
GetOfSameId ==
    /\ http_last.method = "GET"
    /\ http_last.stored = "ok"
    /\ http_last.id = http_last.before.id

\* the product of the body of request h
BodyProduct(h) == from_str(h.body.v).v

\* a store error is answered 500
StoreErrorIs500 ==
    (http_last.method /= "none" /\ http_last.stored = "err")
        => http_last.status = 500

\* GET of all products after a PUT answered 201: 200 with a product
GetAllAfterPut ==
    (http_last.method = "GET_ALL" /\ http_last.stored = "ok"
        /\ PutCreated(http_last.before))
        => (http_last.status = 200 /\ http_last.products /= {})

\* GET of the id after its DELETE answered 200: 404
GetAfterDelete ==
    (http_last.method = "GET" /\ Deleted200(http_last.before) /\ GetOfSameId)
        => http_last.status = 404

Stored(product) == [product EXCEPT !.price = Round2(@)]

PlainDecimal(str) ==
    LET body == IF str /= <<>> /\ Head(str) = "-" THEN Tail(str) ELSE str
    IN  /\ \A q \in DOMAIN body : IsDigit(body[q]) \/ body[q] = "."
        /\ \E q \in DOMAIN body : IsDigit(body[q])
        /\ \A q, r \in DOMAIN body : (body[q] = "." /\ body[r] = ".") => q = r

IsFinite(x) == x /= NaN /\ x /= Inf(FALSE) /\ x /= Inf(TRUE)

\* the product was encoded: the map has the three attributes and the price
\* is a number written as a plain decimal
EncodedPlain ==
    /\ DOMAIN codec_out = {"id", "name", "price"}
    /\ codec_out.price.tag = "N"
    /\ PlainDecimal(codec_out.price.v)

\* the encoded map was decoded to a product equal to the one encoded
DecodedEqual ==
    /\ codec_out.ok
    /\ ProductEq(codec_out.v, codec_in.product)

\* C20 as stated: for every product p the encoding has a plain decimal
\* price, and decoding it succeeds and gives a product equal to p.
C20_RoundTripEvery ==
    /\ (codec_op = <<"from">>) => EncodedPlain
    /\ (codec_op = <<"from", "store_try_from">>) => DecodedEqual

\* C20, amended: for every product p whose price is finite (neither NaN nor
\* an infinity) the encoding has a plain decimal price, and decoding it
\* succeeds and gives a product equal to p.
C20_RoundTripFinite ==
    (codec_in.kind = "product" /\ IsFinite(codec_in.product.price))
        => /\ (codec_op = <<"from">>) => EncodedPlain
           /\ (codec_op = <<"from", "store_try_from">>) => DecodedEqual

\* a product of price 0.05 was written as "0.05" and read back
C20_Witness ==
    /\ codec_op = <<"from", "store_try_from">>
    /\ codec_in.product.price = [m |-> 5, e |-> 2]
    /\ from_product(codec_in.product).price = AttrN(<<"0", ".", "0", "5">>)
    /\ codec_out = Ok(codec_in.product)

(***************************************************************************)
(* The put operation of the CRUD layer: domain::put_product, called by the *)
(* handlers of entrypoints/lambda/apigateway.rs and of the container, and  *)
(* CrudService::put_product, called by the handlers that take a Service.   *)
(***************************************************************************)
\* prices of the products put: 1, 2.5, 1.236, -0.256
CrudPrices == HttpPrices \cup {[m |-> 1, e |-> 0], [m |-> 0 - 256, e |-> 3]}

CrudProducts == [id : HttpIds, name : {<<"a">>}, price : CrudPrices]

InitCrud ==
    /\ InitWith(<<>>)
    /\ CodecIdle
    /\ failures = 0
    /\ ExtraIdle
    /\ http_entry \in {"domain", "service"}
    /\ store = EmptyMap
    /\ http_last = [method |-> "none"]

\* the put is over: the product the caller passed and how the store answered
PutDone(product, ok) ==
    http_last' = [method |-> "put", product |-> product,
                  stored |-> IF ok THEN "ok" ELSE "err"]

\* domain::put_product(store, &product); ok: the store answers Ok
DomainPut(product, ok) ==
    /\ http_entry = "domain"
    /\ store' = IF ok THEN domain_put_product(store, product) ELSE store
    /\ PutDone(product, ok)
    /\ UNCHANGED non_http_vars

\* CrudService::put_product(&self, product): self.store.put(product)
CrudService_put_product(product, ok) ==
    /\ http_entry = "service"
    /\ store' = IF ok THEN StorePut(store, product) ELSE store
    /\ PutDone(product, ok)
    /\ UNCHANGED non_http_vars

NextCrud ==
    \/ \E product \in CrudProducts, ok \in BOOLEAN : DomainPut(product, ok)
    \/ \E product \in CrudProducts, ok \in BOOLEAN :
           CrudService_put_product(product, ok)

SpecCrud == InitCrud /\ [][NextCrud]_vars

\* a product was just written to the store
Written == http_last.method = "put" /\ http_last.stored = "ok"

\* C21: every product written through the put operation of the CRUD layer is
\* stored under its id with its id and its name as given and its price
\* rounded to two decimals, and the product the caller passed is as it was.
C21_StoredRounded ==
    Written =>
        LET given == http_last.product
            kept == StoreGet(store, given.id)
        IN  /\ kept.ok /\ kept.v.some
            /\ kept.v.v.id = given.id
            /\ kept.v.v.name = given.name
            /\ kept.v.v.price = Round2(given.price)
            /\ given \in CrudProducts

(***************************************************************************)
(* Missing fields and fields of the wrong variant.                         *)
(***************************************************************************)
\* field f is present and holds another variant than the decoders ask for
WrongVariant(img, f) ==
    /\ f \in DOMAIN img
    /\ img[f].tag /= (IF f = "price" THEN "N" ELSE "S")

\* HashMap::remove: the map without key f
RemoveKey(img, f) == [k \in DOMAIN img \ {f} |-> img[k]]

\* C22: the decoder parse_events uses reports a field that is absent and a
\* field that holds the wrong variant as two distinct errors, each naming
\* the field: the error names the first offending field, and when that field
\* holds the wrong variant the error is not the one reported for the same
\* map without the field.
C22_MissingVersusWrongType ==
    (codec_op = <<"from_dynamodb">> /\ ~codec_out.ok) =>
        LET img == codec_in.item
            f == FirstBad(img)
        IN  /\ NamesField(codec_out.err, f)
            /\ WrongVariant(img, f) =>
                   codec_out /= from_dynamodb(RemoveKey(img, f))

(***************************************************************************)
(* The parallel decode against the sequential one, on payloads in which    *)
(* any number of records is malformed.                                     *)
(***************************************************************************)
\* longest payload of the decode comparison
MaxDecodeLen == 4

\* records that fail to decode, each with an error of its own: a malformed
\* price, a MODIFY without its old image, an INSERT without a name
DecodeBad ==
    <<[eventName |-> "INSERT",
       NewImage |-> Some(Image(<<"x">>, <<"n">>, <<"1", "0", ",", "5">>)),
       OldImage |-> None],
      [eventName |-> "MODIFY",
       NewImage |-> Some(Image(<<"x">>, <<"n">>, <<"1", ".", "0">>)),
       OldImage |-> None],
      [eventName |-> "INSERT",
       NewImage |-> Some([id |-> AttrS(<<"x">>),
                          price |-> AttrN(<<"1", ".", "0">>)]),
       OldImage |-> None]>>

\* the payload whose record i is GoodWire(i) where bad[i] = 0 and
\* DecodeBad[bad[i]] elsewhere
MixedPayload(bad) ==
    [i \in DOMAIN bad |-> IF bad[i] = 0 THEN GoodWire(i) ELSE DecodeBad[bad[i]]]

InitDecode ==
    /\ \E n \in 0..MaxDecodeLen :
           \E bad \in [1..n -> 0..Len(DecodeBad)] : InitWith(MixedPayload(bad))
    /\ SideIdle

SpecDecode == InitDecode /\ [][Next]_vars

\* records.iter().map(from_dynamodb_record).collect::<Result<Vec<_>, _>>():
\* the records are decoded in payload order up to the first that fails
decode_sequential(rs) ==
    LET each == [i \in 1..Len(rs) |-> from_dynamodb_record(rs[i])]
        failing == {i \in 1..Len(rs) : ~each[i].ok}
    IN  IF failing = {}
        THEN Ok([i \in 1..Len(rs) |-> each[i].v])
        ELSE each[CHOOSE i \in failing : \A j \in failing : i <= j]

\* C23: the parallel decode of parse_events is equivalent to the sequential
\* decode in payload order.  Under every scheduling of the workers it fails
\* exactly when the sequential decode fails, and then send_events is not
\* called and parse_events returns an error; otherwise send_events is called
\* with the list of events of the sequential decode, in the same order.
C23_ParallelAsSequential ==
    (pc /= "decode") =>
        LET seq == decode_sequential(records)
        IN  /\ saved_err.some <=> ~seq.ok
            /\ seq.ok => (Len(calls) = 1 /\ calls[1] = seq.v)
            /\ ~seq.ok => /\ calls = <<>>
                          /\ result.some /\ ~result.v.ok

\* both workers have decoded two records each and send_events was called
\* with the four events of the sequential decode
C23_Witness ==
    /\ pc /= "decode"
    /\ Len(records) = 4
    /\ \A w \in 1..2 : wpos[w] > First(w, 4) + 1
    /\ Len(calls) = 1
    /\ calls[1] = decode_sequential(records).v
    /\ Len(calls[1]) = 4

\* C24: when records of a payload fail to decode, the error parse_events
\* returns is that of the first failing record in payload order, whatever
\* the scheduling of the workers (so two runs on one payload return the same
\* error).
C24_FirstFailureReported ==
    (pc = "done" /\ saved_err.some) =>
        result = Some(decode_sequential(records))

(***************************************************************************)
(* send_events with the completion order of its requests noted.            *)
(***************************************************************************)
\* lengths of the payloads: none, two and three batches
JoinLengths == {0, 11, 25}

InitJoin ==
    /\ \E n \in JoinLengths : InitWith(Payload(n, EmptyMap))
    /\ SideIdle

\* the request of batch k completes, after those of completed
RespondNoted(k, o) ==
    /\ Respond(k, o)
    /\ completed' = Append(completed, k)
    /\ second' = second
    /\ UNCHANGED <<codec_vars, failures, http_vars, memory_vars>>

NextJoin ==
    \/ (\E w \in 1..NumWorkers : DecodeStep(w)) /\ UNCHANGED side_vars
    \/ Collect /\ UNCHANGED side_vars
    \/ (\E k \in DOMAIN res : Submit(k)) /\ UNCHANGED side_vars
    \/ \E k \in DOMAIN res, o \in BusOutcomes : RespondNoted(k, o)
    \/ Join /\ UNCHANGED side_vars

SpecJoin == InitJoin /\ [][NextJoin]_vars

\* the batches whose request failed
FailedBatches == {k \in DOMAIN res : res[k].some /\ ~res[k].v.ok}

\* C25: when batches of a send_events call fail, the error returned is that
\* of the failing batch of lowest index, whatever the order in which the
\* requests completed: the result is a function of the outcomes per batch.
C25_LowestFailingBatch ==
    (pc = "done" /\ Len(calls) = 1 /\ FailedBatches /= {}) =>
        LET lowest == CHOOSE k \in FailedBatches :
                          \A j \in FailedBatches : k <= j
        IN  /\ send_res = Some(Err(SdkError(res[lowest].v.err)))
            /\ result = send_res

\* batches 2 and 3 failed with different errors, the request of batch 3
\* completed first, and the error returned is that of batch 2
C25_Witness ==
    /\ pc = "done"
    /\ Len(res) = 3
    /\ FailedBatches = {2, 3}
    /\ res[2].v.err /= res[3].v.err
    /\ completed[1] = 3
    /\ send_res = Some(Err(SdkError(res[2].v.err)))

(***************************************************************************)
(* Two invocations of parse_events on one event bus.  The handler of       *)
(* dynamodb-streams.rs hands the same &event_bus to every invocation; each *)
(* invocation owns its payload, its events and its futures.  The first     *)
(* invocation is the one of the variables of the pipeline, the second is   *)
(* the record second; the bus (requests, accepted) serves both.  The       *)
(* requests of the second invocation are numbered below zero.              *)
(***************************************************************************)
\* payloads of the first invocation: one and two batches, and a payload
\* with a malformed record
FirstPayloads ==
    {Payload(2, EmptyMap), Payload(11, EmptyMap),
     Payload(2, [i \in {2} |-> DecodeBad[1]])}

\* payloads of the second invocation, about other products
SecondPayloads ==
    {[i \in 1..n |-> GoodWire(i + 40)] : n \in {1, 11}}
        \cup {<<GoodWire(41), DecodeBad[2]>>}

InitConcurrent ==
    /\ \E delivered \in FirstPayloads : InitWith(delivered)
    /\ CodecIdle /\ failures = 0 /\ HttpIdle /\ MemoryIdle
    /\ completed = <<>>
    /\ \E delivered \in SecondPayloads :
           second = [pc |-> "decode",
                     records |-> [i \in 1..Len(delivered) |->
                                     Deserialize(delivered[i])],
                     events |-> <<>>, calls |-> <<>>, res |-> <<>>,
                     result |-> None]

\* what the second invocation leaves alone, the bus apart
first_vars ==
    <<wire, records, pc, wpos, decoded, saved_err, calls, res, send_res,
      result, codec_vars, failures, http_vars, completed, memory_vars>>

\* the chunks of the send_events call of the second invocation
SecondBatches == chunks(second.calls[1], BatchSize)

\* the second invocation decodes its next record; its payloads hold one
\* malformed record at most, so the order of its workers does not show
SecondDecodeStep ==
    /\ second.pc = "decode"
    /\ Len(second.events) < Len(second.records)
    /\ \E r \in {from_dynamodb_record(
                       second.records[Len(second.events) + 1])} :
           second' = IF r.ok
                     THEN [second EXCEPT !.events = Append(@, r.v)]
                     ELSE [second EXCEPT !.pc = "done", !.result = Some(r)]
    /\ UNCHANGED <<first_vars, requests, accepted>>

\* the decode of the second invocation is through and it enters send_events
SecondCollect ==
    /\ second.pc = "decode"
    /\ Len(second.events) = Len(second.records)
    /\ second' =
          [second EXCEPT
              !.pc = "dispatch",
              !.calls = <<second.events>>,
              !.res = [k \in 1..Len(chunks(second.events, BatchSize))
                          |-> None]]
    /\ UNCHANGED <<first_vars, requests, accepted>>

SecondSubmitted(k) == \E q \in 1..Len(requests) : requests[q].batch = 0 - k

\* a faulty variant of SecondSubmit: the entries are taken from the events of
\* the other invocation
SecondSubmitShared(k) ==
    /\ second.pc = "dispatch"
    /\ k \in DOMAIN second.res
    /\ ~SecondSubmitted(k)
    /\ requests' =
          Append(requests,
                 [batch |-> 0 - k,
                  entries |-> IF pc = "dispatch" /\ k \in DOMAIN res
                              THEN Entries(Batches[k], BusName)
                              ELSE Entries(SecondBatches[k], BusName)])
    /\ UNCHANGED <<first_vars, accepted, second>>

\* the put_events() request of batch k of the second invocation is sent
SecondSubmit(k) ==
    /\ second.pc = "dispatch"
    /\ k \in DOMAIN second.res
    /\ ~SecondSubmitted(k)
    /\ requests' = Append(requests,
                          [batch |-> 0 - k,
                           entries |-> Entries(SecondBatches[k], BusName)])
    /\ UNCHANGED <<first_vars, accepted, second>>

\* the request of batch k of the second invocation completes with outcome o
SecondRespond(k, o) ==
    /\ second.pc = "dispatch"
    /\ k \in DOMAIN second.res
    /\ SecondSubmitted(k)
    /\ ~second.res[k].some
    /\ second' = [second EXCEPT
                     !.res[k] = Some(IF o = "ok" THEN Ok("PutEventsOutput")
                                                 ELSE Err(o))]
    /\ accepted' = IF o = "ok"
                   THEN accepted \o Entries(SecondBatches[k], BusName)
                   ELSE accepted
    /\ UNCHANGED <<first_vars, requests>>

\* join_all of the second invocation is through and it returns
SecondJoin ==
    /\ second.pc = "dispatch"
    /\ \A k \in DOMAIN second.res : second.res[k].some
    /\ second' = [second EXCEPT
                     !.pc = "done",
                     !.result = Some(Propagate(CollectResults(second.res)))]
    /\ UNCHANGED <<first_vars, requests, accepted>>

NextConcurrent ==
    \/ (\E w \in 1..NumWorkers : DecodeStep(w)) /\ UNCHANGED side_vars
    \/ Collect /\ UNCHANGED side_vars
    \/ (\E k \in DOMAIN res : Submit(k)) /\ UNCHANGED side_vars
    \/ (\E k \in DOMAIN res, o \in BusOutcomes : Respond(k, o))
           /\ UNCHANGED side_vars
    \/ Join /\ UNCHANGED side_vars
    \/ SecondDecodeStep
    \/ SecondCollect
    \/ \E k \in DOMAIN second.res : SecondSubmit(k)
    \/ \E k \in DOMAIN second.res, o \in BusOutcomes : SecondRespond(k, o)
    \/ SecondJoin

SpecConcurrent == InitConcurrent /\ [][NextConcurrent]_vars

\* what parse_events returns when it runs alone, its decode yields events and
\* the bus answers its requests with the responses r
AloneResult(events, r) ==
    IF events.ok THEN Propagate(CollectResults(r)) ELSE events

\* the requests on the bus that carry the batch numbers bs are those of a run
\* alone whose decode yields events: one request a batch with the entries of
\* the batch, none when the decode fails; own[b] is the batch of number b
IssuedAlone(events, bs, own) ==
    \A q \in 1..Len(requests) :
        requests[q].batch \in bs =>
            /\ events.ok
            /\ LET batches == chunks(events.v, BatchSize)
                   k == own[requests[q].batch]
               IN  /\ k \in 1..Len(batches)
                   /\ requests[q].entries = Entries(batches[k], BusName)
            /\ \A p \in 1..Len(requests) :
                   requests[p].batch = requests[q].batch => p = q

\* the entries of the events of a decode
EntriesOf(events) ==
    IF events.ok
    THEN {to_eventbridge(events.v[i], BusName) : i \in 1..Len(events.v)}
    ELSE {}

\* C26: two invocations of parse_events that run concurrently against the same
\* bus do not interfere.  Under every interleaving the requests each of them
\* issues are those it issues alone, one per batch with the entries of its own
\* events, the result of each is the one it returns alone with the same bus
\* responses, and no request holds entries of the events of both.
C26_NoInterference ==
    LET mine == decode_sequential(records)
        theirs == decode_sequential(second.records)
        numbers == 1..MaxRecords
        below == {0 - b : b \in numbers}
    IN  /\ IssuedAlone(mine, numbers, [b \in numbers |-> b])
        /\ IssuedAlone(theirs, below, [b \in below |-> 0 - b])
        /\ pc = "done" => result = Some(AloneResult(mine, res))
        /\ second.pc = "done" =>
               second.result = Some(AloneResult(theirs, second.res))
        /\ \A q \in 1..Len(requests) :
               LET held == {requests[q].entries[j] :
                               j \in 1..Len(requests[q].entries)}
               IN  ~(/\ held \cap EntriesOf(mine) /= {}
                     /\ held \cap EntriesOf(theirs) /= {})

\* both invocations had two batches in flight at once, the first one met a
\* failing request and the second none, and both have returned
C26_Witness ==
    /\ pc = "done" /\ second.pc = "done"
    /\ Len(requests) = 4
    /\ requests[1].batch = 1 /\ requests[2].batch = 0 - 1
    /\ requests[3].batch = 0 - 2 /\ requests[4].batch = 2
    /\ ~result.v.ok
    /\ second.result.v.ok

(***************************************************************************)
(* The VoidBus of event_bus/void.rs, the bus of a service that has no      *)
(* EVENT_BUS_NAME.                                                         *)
(***************************************************************************)
\* get_service: the event bus it builds for the value of EVENT_BUS_NAME
get_service(event_bus_name) ==
    IF event_bus_name.some THEN "EventBridgeBus" ELSE "VoidBus"

\* the events handed to send_event
VoidEvents ==
    {from_dynamodb_record(Deserialize(GoodWire(i))).v : i \in 1..3}

InitVoid ==
    /\ get_service(None) = "VoidBus"
    /\ InitDecode

\* a faulty variant of VoidBus_send_events: the empty list of events succeeds
VoidBus_send_events_lenient ==
    /\ pc = "dispatch"
    /\ send_res' = Some(IF calls[Len(calls)] = <<>>
                        THEN Ok("()")
                        ELSE Err(InternalError("send_events is not supported")))
    /\ result' = Some(Propagate(send_res'.v))
    /\ pc' = "done"
    /\ UNCHANGED <<wire, records, wpos, decoded, saved_err, calls, requests,
                   res, accepted, side_vars>>

\* VoidBus::send_events, entered by parse_events with the decoded events: it
\* returns the error whatever the events are, and parse_events returns it
VoidBus_send_events ==
    /\ pc = "dispatch"
    /\ send_res' = Some(Err(InternalError("send_events is not supported")))
    /\ result' = Some(Propagate(send_res'.v))
    /\ pc' = "done"
    /\ UNCHANGED <<wire, records, wpos, decoded, saved_err, calls, requests,
                   res, accepted, side_vars>>

\* VoidBus::send_event
VoidBus_send_event(event) ==
    /\ codec_op = <<>>
    /\ codec_in' = [kind |-> "event", v |-> event]
    /\ codec_op' = <<"send_event">>
    /\ codec_out' = Some(Err(InternalError("send_event is not supported")))
    /\ UNCHANGED <<pipeline_vars, failures, http_vars, extra_vars>>

NextVoid ==
    \/ (\E w \in 1..NumWorkers : DecodeStep(w)) /\ UNCHANGED side_vars
    \/ Collect /\ UNCHANGED side_vars
    \/ VoidBus_send_events
    \/ \E event \in VoidEvents : VoidBus_send_event(event)

SpecVoid == InitVoid /\ [][NextVoid]_vars

\* C27: the VoidBus fails every send_event and every send_events call with an
\* error and publishes nothing, the empty list of events included, and
\* parse_events wired to it never returns Ok.
C27_VoidBusFails ==
    /\ send_res.some =>
           /\ ~send_res.v.ok
           /\ send_res.v.err.variant = "InternalError"
    /\ codec_out.some =>
           /\ ~codec_out.v.ok
           /\ codec_out.v.err.variant = "InternalError"
    /\ requests = <<>>
    /\ accepted = <<>>
    /\ pc = "done" => (result.some /\ ~result.v.ok)

\* send_events was entered with the empty list of events and failed, and
\* send_event has failed
C27_Witness ==
    /\ pc = "done"
    /\ calls = << <<>> >>
    /\ send_res.some /\ ~send_res.v.ok
    /\ ~result.v.ok
    /\ codec_out.some /\ ~codec_out.v.ok

(***************************************************************************)
(* The MemoryStore of store/memory.rs: a HashMap behind a RwLock.  Every   *)
(* operation takes the lock once, so it acts on the map in one step; the   *)
(* tasks that share the store interleave between the call of an operation  *)
(* and the step in which it holds the lock.  The HashMap is the set of its *)
(* entries.                                                                *)
(***************************************************************************)
\* number of tasks that share the store
NumTasks == 2

\* number of calls of one behaviour
MaxCalls == 3

MemoryIds == {"1", "2"}

\* two products of id 1 and one of id 2
MemoryProducts ==
    {[id |-> "1", name |-> n, price |-> [m |-> 25, e |-> 1]] :
        n \in {"a", "b"}}
        \cup {[id |-> "2", name |-> "c", price |-> [m |-> 1236, e |-> 3]]}

\* the cursors passed to all()
MemoryCursors == {None, Some("1")}

\* the calls a task makes
MemoryCalls ==
    {[op |-> "put", product |-> p] : p \in MemoryProducts}
        \cup {[op |-> "delete", id |-> id] : id \in MemoryIds}
        \cup {[op |-> "get", id |-> id] : id \in MemoryIds}
        \cup {[op |-> "all", next |-> c] : c \in MemoryCursors}

IsWrite(call) == call.op \in {"put", "delete"}

\* the id a put or a delete writes
WrittenId(call) == IF call.op = "put" THEN call.product.id ELSE call.id

\* a faulty variant of HashMap_insert: the entry of the key is kept
HashMap_insert_keep(map, key, value) ==
    map \cup {[key |-> key, value |-> value]}

\* HashMap::insert: the entry of the key is replaced
HashMap_insert(map, key, value) ==
    {e \in map : e.key /= key} \cup {[key |-> key, value |-> value]}

\* HashMap::remove
HashMap_remove(map, key) == {e \in map : e.key /= key}

\* HashMap::get(..).cloned()
HashMap_get(map, key) ==
    IF \E e \in map : e.key = key
    THEN Some((CHOOSE e \in map : e.key = key).value)
    ELSE None

\* the orders in which HashMap::iter may visit the entries
HashMap_iter(map) ==
    {order \in [1..Cardinality(map) -> map] :
        \A i, j \in 1..Cardinality(map) : order[i] = order[j] => i = j}

\* StorePut for MemoryStore
MemoryStore_put(map, product) == HashMap_insert(map, product.id, product)

\* a faulty variant of MemoryStore_delete: the map is cleared
MemoryStore_delete_clear(map, id) == {}

\* StoreDelete for MemoryStore
MemoryStore_delete(map, id) == HashMap_remove(map, id)

\* StoreGet for MemoryStore
MemoryStore_get(map, id) == Ok(HashMap_get(map, id))

\* StoreGetAll for MemoryStore, the entries visited in the given order: the
\* cursor is not read
MemoryStore_all(order, next) ==
    Ok([products |-> [i \in DOMAIN order |-> order[i].value], next |-> None])

InitMemory ==
    /\ InitWith(<<>>)
    /\ CodecIdle /\ failures = 0 /\ HttpIdle
    /\ completed = <<>> /\ second = [pc |-> "none"]
    /\ data = {}
    /\ tasks = [t \in 1..NumTasks |-> [pc |-> "idle"]]
    /\ oplog = <<>>

\* the calls made and not yet through
PendingCalls == Cardinality({t \in 1..NumTasks : tasks[t].pc = "called"})

non_memory_vars ==
    <<pipeline_vars, codec_vars, failures, http_vars, completed, second>>

\* task t calls an operation of the store
MemoryCall(t, call) ==
    /\ tasks[t].pc /= "called"
    /\ Len(oplog) + PendingCalls < MaxCalls
    /\ tasks' = [tasks EXCEPT ![t] = [pc |-> "called", call |-> call]]
    /\ UNCHANGED <<data, oplog, non_memory_vars>>

\* the put of task t holds the write lock and returns
MemoryPut(t) ==
    /\ tasks[t].pc = "called" /\ tasks[t].call.op = "put"
    /\ data' = MemoryStore_put(data, tasks[t].call.product)
    /\ oplog' = Append(oplog, tasks[t].call)
    /\ tasks' = [tasks EXCEPT ![t] = [pc |-> "returned", call |-> @.call,
                                       ret |-> Ok("()")]]
    /\ UNCHANGED non_memory_vars

\* the delete of task t holds the write lock and returns
MemoryDelete(t) ==
    /\ tasks[t].pc = "called" /\ tasks[t].call.op = "delete"
    /\ data' = MemoryStore_delete(data, tasks[t].call.id)
    /\ oplog' = Append(oplog, tasks[t].call)
    /\ tasks' = [tasks EXCEPT ![t] = [pc |-> "returned", call |-> @.call,
                                       ret |-> Ok("()")]]
    /\ UNCHANGED non_memory_vars

\* the get of task t holds the read lock and returns
MemoryGet(t) ==
    /\ tasks[t].pc = "called" /\ tasks[t].call.op = "get"
    /\ tasks' = [tasks EXCEPT ![t] =
                     [pc |-> "returned", call |-> @.call,
                      ret |-> MemoryStore_get(data, @.call.id)]]
    /\ oplog' = Append(oplog, tasks[t].call)
    /\ UNCHANGED <<data, non_memory_vars>>

\* the all of task t holds the read lock and returns
MemoryAll(t) ==
    /\ tasks[t].pc = "called" /\ tasks[t].call.op = "all"
    /\ \E order \in HashMap_iter(data) :
           tasks' = [tasks EXCEPT ![t] =
                        [pc |-> "returned", call |-> @.call,
                         ret |-> MemoryStore_all(order, @.call.next)]]
    /\ oplog' = Append(oplog, tasks[t].call)
    /\ UNCHANGED <<data, non_memory_vars>>

NextMemory ==
    \/ \E t \in 1..NumTasks, call \in MemoryCalls : MemoryCall(t, call)
    \/ \E t \in 1..NumTasks : MemoryPut(t)
    \/ \E t \in 1..NumTasks : MemoryDelete(t)
    \/ \E t \in 1..NumTasks : MemoryGet(t)
    \/ \E t \in 1..NumTasks : MemoryAll(t)

SpecMemory == InitMemory /\ [][NextMemory]_vars

\* the step in which the call of task t holds the lock and returns
Returns(t) == tasks[t].pc = "called" /\ tasks'[t].pc = "returned"

\* get(id) is the same before and after the step for every id but the given
SameButFor(id) ==
    \A other \in MemoryIds \ {id} :
        MemoryStore_get(data', other) = MemoryStore_get(data, other)

\* C28: MemoryStore: after put(p), get(p.id) returns p, replacing any product
\* stored earlier under that id; after delete(id), get(id) returns None; put
\* and delete leave every product stored under a different id unchanged;
\* delete of an id that is not stored succeeds and changes nothing.  All four
\* operations always return Ok.
C28_MemoryStoreFrame ==
    [][\A t \in 1..NumTasks :
          Returns(t) =>
              LET call == tasks[t].call
              IN  /\ tasks'[t].ret.ok
                  /\ call.op = "put" =>
                         /\ MemoryStore_get(data', call.product.id)
                                = Ok(Some(call.product))
                         /\ SameButFor(call.product.id)
                  /\ call.op = "delete" =>
                         /\ MemoryStore_get(data', call.id) = Ok(None)
                         /\ SameButFor(call.id)
                         /\ MemoryStore_get(data, call.id) = Ok(None) =>
                                data' = data
                  /\ call.op \in {"get", "all"} => data' = data]_vars

\* a product was put under id 1, another product was put under the same id
\* and a get of id 1 has returned the second
C28_Witness ==
    /\ Len(oplog) = 3
    /\ oplog[1].op = "put" /\ oplog[2].op = "put" /\ oplog[3].op = "get"
    /\ oplog[1].product.id = "1" /\ oplog[2].product.id = "1"
    /\ oplog[1].product /= oplog[2].product
    /\ \E t \in 1..NumTasks :
           /\ tasks[t].pc = "returned"
           /\ tasks[t].call = oplog[3]
           /\ tasks[t].ret = Ok(Some(oplog[2].product))

\* the last put or delete of the id in the log, 0 when there is none
LastWrite(id) ==
    LET writes == {i \in 1..Len(oplog) :
                      IsWrite(oplog[i]) /\ WrittenId(oplog[i]) = id}
    IN  IF writes = {} THEN 0
        ELSE CHOOSE i \in writes : \A j \in writes : j <= i

\* C29: MemoryStore invariant: after any sequence of put and delete
\* operations, also when several tasks issue them concurrently, the store
\* holds at most one product per id, every entry is keyed by the id of its
\* product, the content is the last product put for each id that was not
\* deleted afterwards, and all(next) returns exactly those products, once
\* each, with no next cursor, whatever cursor is passed.
C29_MemoryStoreInvariant ==
    /\ \A e, f \in data : e.key = f.key => e = f
    /\ \A e \in data : e.value.id = e.key
    /\ \A id \in MemoryIds :
           LET last == LastWrite(id)
           IN  IF last = 0 \/ oplog[last].op = "delete"
               THEN \A e \in data : e.key /= id
               ELSE [key |-> id, value |-> oplog[last].product] \in data
    /\ \A next \in MemoryCursors, order \in HashMap_iter(data) :
           LET range == MemoryStore_all(order, next)
           IN  /\ range.ok
               /\ range.v.next = None
               /\ Len(range.v.products) = Cardinality(data)
               /\ {range.v.products[i] : i \in 1..Len(range.v.products)}
                      = {e.value : e \in data}

\* task 1 has put a product under id 1, task 2 has put another product under
\* the same id after it, and its all() with a cursor has returned the one
\* product stored
C29_Witness ==
    /\ Len(oplog) = 3
    /\ oplog[1].op = "put" /\ oplog[2].op = "put"
    /\ oplog[1].product.id = "1" /\ oplog[2].product.id = "1"
    /\ oplog[1].product /= oplog[2].product
    /\ oplog[3] = [op |-> "all", next |-> Some("1")]
    /\ tasks[1].pc = "returned" /\ tasks[1].call = oplog[1]
    /\ tasks[2].pc = "returned" /\ tasks[2].call = oplog[3]
    /\ tasks[2].ret = Ok([products |-> <<oplog[2].product>>, next |-> None])
    /\ data = {[key |-> "1", value |-> oplog[2].product]}

(***************************************************************************)
(* The record decoder of model.rs beside the one of ext.rs.                *)
(***************************************************************************)
\* a faulty variant of Event_try_from: MODIFY reads both products from the new
\* image
Event_try_from_new_only(value) ==
    IF value.event_name = "INSERT" THEN
        LET product == try_from(value.dynamodb.new_image)
        IN  IF ~product.ok THEN product ELSE Ok(Created(product.v))
    ELSE IF value.event_name = "MODIFY" THEN
        LET old == try_from(value.dynamodb.new_image)
            new == try_from(value.dynamodb.new_image)
        IN  IF ~old.ok THEN old
            ELSE IF ~new.ok THEN new
            ELSE Ok(Updated(old.v, new.v))
    ELSE IF value.event_name = "REMOVE" THEN
        LET product == try_from(value.dynamodb.old_image)
        IN  IF ~product.ok THEN product ELSE Ok(Deleted(product.v))
    ELSE Err(InternalError("Unknown event type"))

\* TryFrom<&DynamoDBRecord> for Event
Event_try_from(value) ==
    IF value.event_name = "INSERT" THEN
        LET product == try_from(value.dynamodb.new_image)
        IN  IF ~product.ok THEN product ELSE Ok(Created(product.v))
    ELSE IF value.event_name = "MODIFY" THEN
        LET old == try_from(value.dynamodb.old_image)
            new == try_from(value.dynamodb.new_image)
        IN  IF ~old.ok THEN old
            ELSE IF ~new.ok THEN new
            ELSE Ok(Updated(old.v, new.v))
    ELSE IF value.event_name = "REMOVE" THEN
        LET product == try_from(value.dynamodb.old_image)
        IN  IF ~product.ok THEN product ELSE Ok(Deleted(product.v))
    ELSE Err(InternalError("Unknown event type"))

\* C30: the two record decoders agree on every record: on each record that
\* from_dynamodb_record of ext.rs has decoded, TryFrom<&DynamoDBRecord> for
\* Event of model.rs fails when it failed, and succeeds with the same event
\* variant and the same product fields when it succeeded.
C30_DecodersAgree ==
    \A i \in DOMAIN decoded :
        decoded[i].some =>
            LET ext == decoded[i].v
                model == Event_try_from(records[i])
            IN  /\ model.ok <=> ext.ok
                /\ ext.ok => model.v = ext.v

\* a MODIFY record was decoded into an Updated event of two different
\* products, and both decoders yield it
C30_Witness ==
    /\ Len(records) = 1
    /\ records[1].event_name = "MODIFY"
    /\ decoded[1].some /\ decoded[1].v.ok
    /\ decoded[1].v.v.old /= decoded[1].v.v.new
    /\ Event_try_from(records[1]) = decoded[1].v

====
